---- MODULE Spec2Model ----
(***************************************************************************)
(* gptask: the step codec (decodeStep / encodeStep / Step.Validate), the   *)
(* persistent shell engine (shell.Shell) and the turn loop (Runner.Run).   *)
(*                                                                         *)
(* A Go string is a sequence of tokens.  A token is one byte ("\n", " ",   *)
(* ":", ",", "/", a digit, a letter) or one word that the code only ever   *)
(* handles as a unit ("thought", "FENCE" for the three backquotes, "MAGIC"  *)
(* for the delimiter GPTASK-COMMAND-END).                                  *)
(***************************************************************************)
EXTENDS Integers, Sequences, FiniteSets, TLC

\* ------------------------------------------------------------------ bounds
\* the longest reply text the codec is tried on, in lines
MaxReplyLines == 5
\* the largest step budget (Config.MaxSteps) a run is configured with
MaxBudget == 2
\* the number of completion requests a run is followed for
MaxRequests == 3
\* the longest input of a Step the codec is tried on, in tokens
MaxInputLen == 3
\* the lines a pipe holds before a write to it blocks
PipeCap == 1
\* the most calls of Shell.Stop made on one Shell
MaxStopCalls == 3
\* the longest sequence of cd and file actions the version with cd is given
MaxCdSteps == 3
\* the largest budget of the runs whose progress is checked
MaxLiveBudget == 1
\* the most lines a command of the version with cd writes to standard output
MaxOutputLines == 6
\* the most lines that follow the input: line of a reply the codec is tried on
MaxPayloadLines == 5
\* the most calls of Session.Send made on one Session
MaxSendCalls == 3

\* --------------------------------------------------------- package strings
NL == "\n"
FENCE == "FENCE"
SP == " "

HasPrefix(s, p) ==
    /\ Len(s) >= Len(p)
    /\ SubSeq(s, 1, Len(p)) = p

\* strings.Index for a one-token needle: Go's 0-based offset, -1 when absent
Index(s, t) ==
    IF \E k \in 1..Len(s) : s[k] = t
    THEN (CHOOSE k \in 1..Len(s) : s[k] = t /\ \A j \in 1..(k-1) : s[j] # t) - 1
    ELSE -1

\* s[from:] with Go's 0-based offset
SliceFrom(s, from) == SubSeq(s, from + 1, Len(s))

\* s[:to] with Go's 0-based offset
SliceTo(s, to) == SubSeq(s, 1, to)

RECURSIVE Split(_, _)
Split(s, sep) ==
    LET k == Index(s, sep)
    IN IF k = -1 THEN <<s>>
       ELSE <<SliceTo(s, k)>> \o Split(SliceFrom(s, k + 1), sep)

\* strings.SplitN(s, sep, 2)
SplitN2(s, sep) ==
    LET k == Index(s, sep)
    IN IF k = -1 THEN <<s>>
       ELSE <<SliceTo(s, k), SliceFrom(s, k + 1)>>

RECURSIVE Join(_, _)
Join(parts, sep) ==
    IF Len(parts) = 0 THEN <<>>
    ELSE IF Len(parts) = 1 THEN parts[1]
    ELSE parts[1] \o <<sep>> \o Join(Tail(parts), sep)

RECURSIVE TrimLeft(_, _)
TrimLeft(s, cutset) ==
    IF Len(s) > 0 /\ s[1] \in cutset THEN TrimLeft(Tail(s), cutset) ELSE s

RECURSIVE TrimRight(_, _)
TrimRight(s, cutset) ==
    IF Len(s) > 0 /\ s[Len(s)] \in cutset
    THEN TrimRight(SubSeq(s, 1, Len(s) - 1), cutset)
    ELSE s

Trim(s, cutset) == TrimRight(TrimLeft(s, cutset), cutset)

\* ------------------------------------------------------------------- Step
Step(t, a, i, o) == [Thought |-> t, Action |-> a, Input |-> i, Observation |-> o]

ZeroStep == Step(<<>>, <<>>, <<>>, <<>>)

\* the switch of Validate with the default branch lost
ValidateAcceptsAny(s) ==
    IF s.Action = <<"done">> THEN "nil"
    ELSE IF s.Thought = <<>> THEN "thought must be specified"
    ELSE IF s.Input = <<>> THEN "input must be specified"
    ELSE "nil"

\* Validate asking a thought of every step, done included
ValidateDoneNeedsThought(s) ==
    IF s.Thought = <<>> THEN "thought must be specified"
    ELSE IF s.Action = <<"done">> THEN "nil"
    ELSE IF s.Input = <<>> THEN "input must be specified"
    ELSE IF s.Action \in {<<"file">>, <<"python">>, <<"shell">>, <<"search">>} THEN "nil"
    ELSE "invalid action value"

\* Step.Validate: "nil" or the error text
Validate(s) ==
    IF s.Action = <<"done">> THEN "nil"
    ELSE IF s.Thought = <<>> THEN "thought must be specified"
    ELSE IF s.Input = <<>> THEN "input must be specified"
    ELSE IF s.Action \in {<<"file">>, <<"python">>, <<"shell">>, <<"search">>} THEN "nil"
    ELSE "invalid action value"

\* Step.Validate of the version whose dispatcher has the cd action
ValidateWithCd(s) ==
    IF s.Action = <<"done">> THEN "nil"
    ELSE IF s.Thought = <<>> THEN "thought must be specified"
    ELSE IF s.Input = <<>> THEN "input must be specified"
    ELSE IF s.Action \in {<<"file">>, <<"cd">>, <<"python">>, <<"shell">>, <<"search">>} THEN "nil"
    ELSE "invalid action value"

\* parts[1] of SplitN(line, ":", 2); "panic" stands for index out of range
AfterColon(line) ==
    LET parts == SplitN2(line, ":")
    IN IF Len(parts) < 2 THEN [panic |-> TRUE, v |-> <<>>]
       ELSE [panic |-> FALSE, v |-> Trim(parts[2], {NL, SP})]

\* the inner loop of decodeStep (the scan after an "input:" line).
\* st = [i, block, input, n]: i is Go's 0-based index, n counts iterations.
RECURSIVE ScanInput(_, _)
ScanInput(lines, st) ==
    IF ~(st.i < Len(lines)) THEN st
    ELSE IF HasPrefix(lines[st.i + 1], <<FENCE>>)
         THEN IF ~st.block
              THEN ScanInput(lines, [st EXCEPT !.block = TRUE, !.i = @ + 1, !.n = @ + 1])
              ELSE [st EXCEPT !.n = @ + 1]
         ELSE ScanInput(lines,
                [st EXCEPT !.input = IF st.block THEN Append(@, lines[st.i + 1]) ELSE @,
                           !.i = @ + 1, !.n = @ + 1])

\* the outer loop of decodeStep, a thought and an action once set being kept
RECURSIVE ScanLinesFirstWins(_, _)
ScanLinesFirstWins(lines, st) ==
    IF st.panic \/ ~(st.i < Len(lines)) THEN st
    ELSE LET line == lines[st.i + 1] IN
         IF HasPrefix(line, <<"thought", ":">>)
         THEN LET p == AfterColon(line) IN
              ScanLinesFirstWins(lines,
                [st EXCEPT !.s.Thought = IF @ = <<>> THEN p.v ELSE @, !.panic = p.panic,
                           !.i = @ + 1, !.n = @ + 1])
         ELSE IF HasPrefix(line, <<"action", ":">>)
         THEN LET p == AfterColon(line) IN
              ScanLinesFirstWins(lines,
                [st EXCEPT !.s.Action = IF @ = <<>> THEN p.v ELSE @, !.panic = p.panic,
                           !.i = @ + 1, !.n = @ + 1])
         ELSE IF HasPrefix(line, <<"input", ":">>)
         THEN LET in == ScanInput(lines, [i |-> st.i + 1, block |-> st.block,
                                          input |-> st.input, n |-> st.n + 1]) IN
              ScanLinesFirstWins(lines,
                [st EXCEPT !.s.Input = Join(in.input, NL),
                           !.block = in.block, !.input = in.input,
                           !.i = in.i + 1, !.n = in.n])
         ELSE ScanLinesFirstWins(lines, [st EXCEPT !.i = @ + 1, !.n = @ + 1])

\* the outer loop of decodeStep.
\* st = [i, block, input, n, s, panic]
RECURSIVE ScanLines(_, _)
ScanLines(lines, st) ==
    IF st.panic \/ ~(st.i < Len(lines)) THEN st
    ELSE LET line == lines[st.i + 1] IN
         IF HasPrefix(line, <<"thought", ":">>)
         THEN LET p == AfterColon(line) IN
              ScanLines(lines, [st EXCEPT !.s.Thought = p.v, !.panic = p.panic,
                                          !.i = @ + 1, !.n = @ + 1])
         ELSE IF HasPrefix(line, <<"action", ":">>)
         THEN LET p == AfterColon(line) IN
              ScanLines(lines, [st EXCEPT !.s.Action = p.v, !.panic = p.panic,
                                          !.i = @ + 1, !.n = @ + 1])
         ELSE IF HasPrefix(line, <<"input", ":">>)
         THEN LET in == ScanInput(lines, [i |-> st.i + 1, block |-> st.block,
                                          input |-> st.input, n |-> st.n + 1]) IN
              ScanLines(lines, [st EXCEPT !.s.Input = Join(in.input, NL),
                                          !.block = in.block, !.input = in.input,
                                          !.i = in.i + 1, !.n = in.n])
         ELSE ScanLines(lines, [st EXCEPT !.i = @ + 1, !.n = @ + 1])

\* decodeStep: [kind |-> "step", s], [kind |-> "error", err] or [kind |-> "panic"];
\* n is the number of loop iterations it took
decodeStep(msg) ==
    LET lines == Split(msg, NL)
        fin == ScanLines(lines, [i |-> 0, block |-> FALSE, input |-> <<>>, n |-> 0,
                                 s |-> ZeroStep, panic |-> FALSE])
        err == Validate(fin.s)
    IN IF fin.panic THEN [kind |-> "panic", s |-> ZeroStep, err |-> "index out of range", n |-> fin.n]
       ELSE IF err # "nil" THEN [kind |-> "error", s |-> ZeroStep, err |-> err, n |-> fin.n]
       ELSE [kind |-> "step", s |-> fin.s, err |-> "nil", n |-> fin.n]

\* encodeStep with the payload passed on as it is
encodeStepUntrimmed(s) ==
    LET lines ==
          IF s.Thought # <<>>
          THEN << <<"thought", ":", SP>> \o s.Thought,
                  <<"action", ":", SP>> \o s.Action,
                  <<"input", ":", NL, FENCE, NL>> \o s.Input \o <<NL, FENCE, NL>> >>
          ELSE IF s.Observation # <<>>
          THEN << <<"observation", ":", NL, FENCE, NL>> \o s.Observation
                    \o <<NL, FENCE, NL>> >>
          ELSE << >>
    IN Join(lines, NL)

\* encodeStep
encodeStep(s) ==
    LET lines ==
          IF s.Thought # <<>>
          THEN << <<"thought", ":", SP>> \o s.Thought,
                  <<"action", ":", SP>> \o s.Action,
                  <<"input", ":", NL, FENCE, NL>> \o Trim(s.Input, {NL}) \o <<NL, FENCE, NL>> >>
          ELSE IF s.Observation # <<>>
          THEN << <<"observation", ":", NL, FENCE, NL>> \o Trim(s.Observation, {NL})
                    \o <<NL, FENCE, NL>> >>
          ELSE << >>
    IN Join(lines, NL)

\* --------------------------------------------------------- package strconv
Digits == <<"0", "1", "2", "3", "4", "5", "6", "7", "8", "9">>

IsDigit(t) == \E d \in 1..10 : Digits[d] = t

DigitVal(t) == (CHOOSE d \in 1..10 : Digits[d] = t) - 1

\* strconv.Itoa, as the shell expands $? (0..255)
RECURSIVE Itoa(_)
Itoa(n) == IF n < 10 THEN <<Digits[n + 1]>> ELSE Itoa(n \div 10) \o <<Digits[(n % 10) + 1]>>

RECURSIVE AtoiDigits(_, _)
AtoiDigits(s, acc) ==
    IF Len(s) = 0 THEN acc ELSE AtoiDigits(Tail(s), acc * 10 + DigitVal(s[1]))

\* rc, _ := strconv.Atoi(x): the error is dropped, and the value is 0 then
Atoi(s) ==
    IF Len(s) > 0 /\ \A k \in 1..Len(s) : IsDigit(s[k]) THEN AtoiDigits(s, 0) ELSE 0

\* ------------------------------------------------------- package filepath
SLASH == "/"

IsAbs(p) == HasPrefix(p, <<SLASH>>)

RECURSIVE CleanParts(_, _, _)
CleanParts(parts, stack, rooted) ==
    IF Len(parts) = 0 THEN stack
    ELSE LET c == parts[1] IN
         IF c = <<>> \/ c = <<".">> THEN CleanParts(Tail(parts), stack, rooted)
         ELSE IF c = <<"..">>
              THEN IF Len(stack) > 0 /\ stack[Len(stack)] # <<"..">>
                   THEN CleanParts(Tail(parts), SubSeq(stack, 1, Len(stack) - 1), rooted)
                   ELSE IF rooted THEN CleanParts(Tail(parts), stack, rooted)
                   ELSE CleanParts(Tail(parts), Append(stack, c), rooted)
         ELSE CleanParts(Tail(parts), Append(stack, c), rooted)

\* filepath.Clean
Clean(p) ==
    LET rooted == IsAbs(p)
        body == Join(CleanParts(Split(p, SLASH), <<>>, rooted), SLASH)
    IN IF rooted THEN <<SLASH>> \o body
       ELSE IF body = <<>> THEN <<".">> ELSE body

\* filepath.Join of two elements: empty elements are ignored
PathJoin(a, b) ==
    IF a = <<>> /\ b = <<>> THEN <<>>
    ELSE IF a = <<>> THEN Clean(b)
    ELSE IF b = <<>> THEN Clean(a)
    ELSE Clean(a \o <<SLASH>> \o b)

\* the offset of the last separator, -1 when there is none
RECURSIVE LastSlash(_)
LastSlash(p) ==
    IF Len(p) = 0 THEN -1
    ELSE IF p[Len(p)] = SLASH THEN Len(p) - 1
    ELSE LastSlash(SubSeq(p, 1, Len(p) - 1))

\* filepath.Dir
Dir(p) == Clean(SliceTo(p, LastSlash(p) + 1))

\* ------------------------------------------------------ the file system
\* the directory gptask itself runs in (WORKDIR of the image)
ProcCwd == <<SLASH, "root">>

\* how the kernel resolves a path given to a system call
Resolve(p) == IF IsAbs(p) THEN Clean(p) ELSE Clean(ProcCwd \o <<SLASH>> \o p)

\* every proper ancestor directory and the path itself, for an absolute clean path
RECURSIVE Ancestors(_)
Ancestors(p) ==
    IF p = <<SLASH>> THEN {p} ELSE {p} \cup Ancestors(Dir(p))

\* the directories that exist when the task starts
InitDirs ==
    { <<SLASH>>, <<SLASH, "root">>, <<SLASH, "tmp">>, <<SLASH, "tmp", SLASH, "a", ",", "b">> }

\* one regular file exists when the task starts
InitFiles == {[path |-> <<SLASH, "root", SLASH, "notes">>, content |-> <<"n">>]}

IsFile(files, p) == \E f \in files : f.path = p

\* os.MkdirAll: fails when a component of the path is a regular file
MkdirAll(dirs, files, p) ==
    LET abs == Resolve(p)
    IN IF \E a \in Ancestors(abs) : IsFile(files, a)
       THEN [ok |-> FALSE, dirs |-> dirs]
       ELSE [ok |-> TRUE, dirs |-> dirs \cup Ancestors(abs)]

\* os.WriteFile: fails when the path is a directory or its parent is not one
WriteFile(dirs, files, p, content) ==
    LET abs == Resolve(p)
    IN IF abs \in dirs \/ Dir(abs) \notin dirs
       THEN [ok |-> FALSE, files |-> files]
       ELSE [ok |-> TRUE,
             files |-> {f \in files : f.path # abs} \cup {[path |-> abs, content |-> content]}]

\* ------------------------------------------------------------------ state
VARIABLES
    pc,          \* where Runner.Run is: "init", "loop", "select", "returned"
    maxSteps,    \* Config.MaxSteps
    configWorkDir, \* Config.WorkDir, the value of --workdir
    numStep,     \* numStep of Runner.Run
    done,        \* done of Runner.Run
    ret,         \* what Runner.Run returned: "none" (not yet), "nil", "panic",
                 \* or the text of the error
    outcome,     \* "none", "done", "exhausted", "error", "panic"
    messages,    \* Session.Messages
    reply,       \* reply of Runner.Run, what GetCompletion returned last
    curStep,     \* s of Runner.Run, the step being dispatched
    cmds,        \* the commands of runShellAction not yet run
    workDir,     \* Shell.workDir
    stdinPipe,   \* Shell.stdinPipe: "nil", "open", "closed"
    runStdout,   \* stdout of Shell.Run
    runStderr,   \* stderr of Shell.Run
    shAlive,     \* the bash process is running
    shStdin,     \* bytes written to bash's standard input and not yet read
    shPWD,       \* bash's own $PWD
    shStatus,    \* bash's own $?
    stdoutPipe,  \* bytes bash wrote to standard output, not yet scanned
    stderrPipe,  \* bytes bash wrote to standard error, not yet scanned
    outR,        \* the stdout goroutine of Shell.Start
    errR,        \* the stderr goroutine of Shell.Start
    fsDirs,      \* directories of the file system
    fsFiles,     \* regular files of the file system
    requests,    \* history: completion requests made
    retries,     \* history: iterations that ended in continue
    dispatches,  \* history: actions dispatched
    stopCalls,   \* history: calls of Shell.Stop
    stopRet,     \* history: what the last call of Shell.Stop returned
    waited,      \* cmd.Wait has been called (cmd.ProcessState is set)
    stdinWrites, \* history: writes to bash's standard input
    curTruth,    \* history: what the command bash ran last wrote
    shTruth,     \* history: per trailer, what the command before it really did
    runLog,      \* history: per returned Shell.Run, what it returned
    rWorkDir,    \* Runner.WorkDir of the version with the cd action
    cdSteps,     \* history: actions that version has dispatched
    cdLast,      \* history: the action that version dispatched last, the
                 \* directory it ran in, what came back and the feedback
    cpc,         \* codec harness: "idle", "ready", "decoded", "roundtrip",
                 \* "validated", "encoded"
    cIn,         \* codec harness: the reply text or the Step under test
    cOut         \* codec harness: the result

runnerVars == <<pc, maxSteps, configWorkDir, numStep, done, ret, outcome, messages, reply, curStep, cmds>>
shellVars == <<workDir, stdinPipe, runStdout, runStderr>>
procVars == <<shAlive, shStdin, shPWD, shStatus, stdoutPipe, stderrPipe, outR, errR>>
fsVars == <<fsDirs, fsFiles>>
histVars == <<requests, retries, dispatches, stopCalls, stopRet, waited, stdinWrites, curTruth, shTruth, runLog>>
cdVars == <<rWorkDir, cdSteps, cdLast>>
codecVars == <<cpc, cIn, cOut>>
vars == <<runnerVars, shellVars, procVars, fsVars, histVars, cdVars, codecVars>>

\* ------------------------------------------------------------------- bash
MAGIC == "MAGIC"
COMMA == ","
QUOTE == "\""

\* the second line Shell.Run writes: echo "GPTASK-COMMAND-END,$?,$PWD"
Trailer == <<"echo", SP, QUOTE, MAGIC, COMMA, "$?", COMMA, "$PWD", QUOTE>>

CmdEchoHello == <<"echo", SP, "hello">>
CmdPwd == <<"pwd">>
CmdFalse == <<"false">>
CmdLsNope == <<"ls", SP, "nope">>
CmdWarn == <<"echo", SP, "warn", SP, ">&2">>
CmdExit3 == <<"exit", SP, "3">>
CmdPrintf == <<"printf", SP, "foo">>
CmdBoth ==
    <<"echo", SP, "e1", SP, ">&2", ";", SP, "echo", SP, "o1", ";", SP,
      "echo", SP, "e2", SP, ">&2", ";", SP, "echo", SP, "e3", SP, ">&2">>
CmdCdTmp == <<"cd", SP, SLASH, "tmp">>
\* cat <<EOF, the first line of a here-document, and the line that ends it
CmdHereDoc == <<"cat", SP, "<<", "EOF">>
HereDocEnd == <<"EOF">>
CmdCdComma == <<"cd", SP, SLASH, "tmp", SLASH, "a", COMMA, "b">>
\* commands that write the token to standard output: as a whole sentinel
\* line, and alone
CmdEchoSentinel == <<"echo", SP, MAGIC, COMMA, "7", COMMA, SLASH, "x">>
CmdEchoToken == <<"echo", SP, MAGIC>>

NoTruth == [out |-> <<>>, err |-> <<>>]

\* parameter expansion: $? and $PWD replaced by their values
RECURSIVE Expand(_, _, _)
Expand(text, pwd, status) ==
    IF Len(text) = 0 THEN <<>>
    ELSE (IF text[1] = "$?" THEN Itoa(status)
          ELSE IF text[1] = "$PWD" THEN pwd
          ELSE <<text[1]>>) \o Expand(Tail(text), pwd, status)

\* the body of a here-document as cat writes it: its lines, expanded
RECURSIVE HereDocBody(_, _, _)
HereDocBody(lines, pwd, status) ==
    IF Len(lines) = 0 THEN <<>>
    ELSE Expand(lines[1], pwd, status) \o <<NL>> \o HereDocBody(Tail(lines), pwd, status)

\* what bash does with one line of its standard input, given $PWD, $? and the
\* directories that exist: bytes for stdout and stderr, the new $?, the new
\* $PWD, and whether the process exits
BashExec(line, pwd, status, dirs) ==
    LET r(o, e, st, d, x) == [out |-> o, err |-> e, status |-> st, pwd |-> d, exit |-> x]
    IN IF line = <<>> THEN r(<<>>, <<>>, status, pwd, FALSE)
       ELSE IF line = Trailer
            THEN r(<<MAGIC, COMMA>> \o Itoa(status) \o <<COMMA>> \o pwd \o <<NL>>,
                   <<>>, 0, pwd, FALSE)
       ELSE IF HasPrefix(line, CmdHereDoc)
            THEN LET lines == Split(line, NL)
                 IN r(HereDocBody(SubSeq(lines, 2, Len(lines) - 1), pwd, status),
                      <<>>, 0, pwd, FALSE)
       ELSE IF HasPrefix(line, <<"cd", SP>>)
            THEN LET arg == SliceFrom(line, 2)
                     target == IF IsAbs(arg) THEN Clean(arg) ELSE PathJoin(pwd, arg)
                 IN IF target \in dirs
                    THEN r(<<>>, <<>>, 0, target, FALSE)
                    ELSE r(<<>>, <<"cd", ":", SP, "no", SP, "such", SP, "directory", NL>>,
                           1, pwd, FALSE)
       ELSE IF HasPrefix(line, <<"exit", SP>>)
            THEN r(<<>>, <<>>, Atoi(SliceFrom(line, 2)), pwd, TRUE)
       ELSE IF line = CmdPwd THEN r(pwd \o <<NL>>, <<>>, 0, pwd, FALSE)
       ELSE IF line = CmdFalse THEN r(<<>>, <<>>, 1, pwd, FALSE)
       ELSE IF line = CmdLsNope
            THEN r(<<>>, <<"ls", ":", SP, "nope", NL>>, 2, pwd, FALSE)
       ELSE IF HasPrefix(line, <<"printf", SP>>)
            THEN r(SliceFrom(line, 2), <<>>, 0, pwd, FALSE)
       ELSE IF HasPrefix(line, <<"echo", SP>>)
            THEN LET arg == SliceFrom(line, 2) IN
                 IF Len(arg) >= 2 /\ SubSeq(arg, Len(arg) - 1, Len(arg)) = <<SP, ">&2">>
                 THEN r(<<>>, SubSeq(arg, 1, Len(arg) - 2) \o <<NL>>, 0, pwd, FALSE)
                 ELSE r(arg \o <<NL>>, <<>>, 0, pwd, FALSE)
       ELSE r(<<>>, <<"command", SP, "not", SP, "found", NL>>, 127, pwd, FALSE)

\* the complete lines a pipe holds; a write to a pipe that is full blocks
PipeLines(pipe) == Cardinality({i \in 1..Len(pipe) : pipe[i] = NL})
PipeFull(pipe) == PipeLines(pipe) >= PipeCap

\* the offset of the newline that ends the first line HereDocEnd at or after
\* offset from, -1 when no such line is complete yet
RECURSIVE DelimiterEnd(_, _)
DelimiterEnd(stdin, from) ==
    LET k == Index(SliceFrom(stdin, from), NL)
    IN IF k = -1 THEN -1
       ELSE IF SubSeq(stdin, from + 1, from + k) = HereDocEnd THEN from + k
       ELSE DelimiterEnd(stdin, from + k + 1)

\* where the first statement of the input ends: at the first ; of its first
\* line, or at the end of that line; a here-document ends with its delimiter
\* line. -1 while the statement is not complete
StatementEnd(stdin) ==
    LET k == Index(stdin, NL)
        j == Index(stdin, ";")
    IN IF k = -1 THEN -1
       ELSE IF HasPrefix(stdin, CmdHereDoc) THEN DelimiterEnd(stdin, k + 1)
       ELSE IF j # -1 /\ j < k THEN j ELSE k

\* bash runs the next statement of its standard input: it reads whole lines,
\* and runs the statements of a line (separated by ;) one after the other
BashStep ==
    /\ pc # "returned"
    /\ shAlive
    /\ StatementEnd(shStdin) # -1
    /\ \E end \in {StatementEnd(shStdin)} :
       \E line \in {Trim(SliceTo(shStdin, end), {SP})} :
       \E r \in {BashExec(line, shPWD, shStatus, fsDirs)} :
          /\ r.out # <<>> => ~PipeFull(stdoutPipe)
          /\ r.err # <<>> => ~PipeFull(stderrPipe)
          /\ shStdin' = SliceFrom(shStdin, end + 1)
          /\ stdoutPipe' = stdoutPipe \o r.out
          /\ stderrPipe' = stderrPipe \o r.err
          /\ shStatus' = r.status
          /\ shPWD' = r.pwd
          /\ shAlive' = ~r.exit
          /\ IF line = Trailer
             THEN /\ shTruth' = Append(shTruth, [out |-> curTruth.out, err |-> curTruth.err,
                                                 rc |-> shStatus, pwd |-> shPWD])
                  /\ curTruth' = NoTruth
             ELSE /\ curTruth' = [out |-> curTruth.out \o r.out, err |-> curTruth.err \o r.err]
                  /\ shTruth' = shTruth
    /\ UNCHANGED <<runnerVars, shellVars, outR, errR, fsVars, codecVars, cdVars>>
    /\ UNCHANGED <<requests, retries, dispatches, stopCalls, stopRet, waited, stdinWrites, runLog>>

\* ------------------------------------------- the goroutines of Shell.Start
\* a goroutine is in scanner.Scan ("scan"), blocked in ch <- line ("send"),
\* or has left its loop ("exit")
Scanning == [st |-> "scan", line |-> <<>>]

\* one scanner.Scan() of a bufio.Scanner on a pipe: the next line when one is
\* complete, the rest at end of file, false at end of file with nothing left
ScanPipe(pipe, eof) ==
    LET k == Index(pipe, NL)
    IN IF k # -1 THEN [r |-> [st |-> "send", line |-> SliceTo(pipe, k)],
                       rest |-> SliceFrom(pipe, k + 1), on |-> TRUE]
       ELSE IF eof /\ pipe # <<>> THEN [r |-> [st |-> "send", line |-> pipe],
                                        rest |-> <<>>, on |-> TRUE]
       ELSE IF eof THEN [r |-> [st |-> "exit", line |-> <<>>], rest |-> <<>>, on |-> TRUE]
       ELSE [r |-> Scanning, rest |-> pipe, on |-> FALSE]

StdoutScan ==
    /\ pc \notin {"init", "returned"}
    /\ outR.st = "scan"
    /\ LET sc == ScanPipe(stdoutPipe, ~shAlive)
       IN /\ sc.on
          /\ outR' = sc.r
          /\ stdoutPipe' = sc.rest
    /\ UNCHANGED <<runnerVars, shellVars, fsVars, histVars, codecVars, cdVars>>
    /\ UNCHANGED <<shAlive, shStdin, shPWD, shStatus, stderrPipe, errR>>

StderrScan ==
    /\ pc \notin {"init", "returned"}
    /\ errR.st = "scan"
    /\ LET sc == ScanPipe(stderrPipe, ~shAlive)
       IN /\ sc.on
          /\ errR' = sc.r
          /\ stderrPipe' = sc.rest
    /\ UNCHANGED <<runnerVars, shellVars, fsVars, histVars, codecVars, cdVars>>
    /\ UNCHANGED <<shAlive, shStdin, shPWD, shStatus, stdoutPipe, outR>>

\* ---------------------------------------------------------------- actions
ObservationSuccess == <<"success">>
ObservationSuccessWithNoOutput == <<"success", SP, "(no", SP, "output)">>

\* fmt.Sprintf("failed (exit code: %d)", rc)
FailedExitCode(rc) == <<"failed", SP, "(exit", SP, "code", ":", SP>> \o Itoa(rc) \o <<")">>

\* yaml.Unmarshal into FileActionInput (and, in the version with cd, into
\* ChangeDirCommandInput), for a document of "key: value" lines
RECURSIVE YamlLines(_, _)
YamlLines(lines, acc) ==
    IF Len(lines) = 0 \/ ~acc.ok THEN acc
    ELSE LET parts == SplitN2(lines[1], ":") IN
         IF Len(parts) < 2 THEN [acc EXCEPT !.ok = FALSE]
         ELSE LET v == Trim(parts[2], {SP}) IN
              YamlLines(Tail(lines),
                        IF parts[1] = <<"path">> THEN [acc EXCEPT !.Path = v]
                        ELSE IF parts[1] = <<"content">> THEN [acc EXCEPT !.Content = v]
                        ELSE IF parts[1] = <<"dir">> THEN [acc EXCEPT !.Dir = v]
                        ELSE acc)

Unmarshal(input) ==
    YamlLines(Split(input, NL), [ok |-> TRUE, Path |-> <<>>, Content |-> <<>>, Dir |-> <<>>])

\* the error values that reach Run, by their text
ErrYaml == "yaml: cannot unmarshal"
ErrMkdir == "mkdir: not a directory"
ErrWrite == "open: is a directory"
ErrSpawn == "exec: python3: executable file not found"
ErrSearch == "failed to get search result"
ErrPipe == "write: broken pipe"
ErrCompletion == "completion request failed"
ErrStart == "exec: bash: executable file not found"

\* runFileAction writing the file without making its directory first
runFileActionNoMkdir(s, wd, dirs, files) ==
    LET input == Unmarshal(s.Input)
        path == IF IsAbs(input.Path) THEN input.Path ELSE PathJoin(wd, input.Path)
        wr == WriteFile(dirs, files, path, input.Content)
        r(o, e, d, f) == [obs |-> o, err |-> e, dirs |-> d, files |-> f]
    IN IF ~input.ok THEN r(<<>>, ErrYaml, dirs, files)
       ELSE IF input.Path = <<>>
            THEN r(<<"file", SP, "path", SP, "must", SP, "be", SP, "specified">>, "nil", dirs, files)
       ELSE IF ~wr.ok THEN r(<<>>, ErrWrite, dirs, files)
       ELSE r(ObservationSuccess, "nil", dirs, wr.files)

\* runFileAction: the observation, the error it returned ("nil" for none), and
\* the file system it leaves
runFileAction(s, wd, dirs, files) ==
    LET input == Unmarshal(s.Input)
        path == IF IsAbs(input.Path) THEN input.Path ELSE PathJoin(wd, input.Path)
        mk == MkdirAll(dirs, files, Dir(path))
        wr == WriteFile(mk.dirs, files, path, input.Content)
        r(o, e, d, f) == [obs |-> o, err |-> e, dirs |-> d, files |-> f]
    IN IF ~input.ok THEN r(<<>>, ErrYaml, dirs, files)
       ELSE IF input.Path = <<>>
            THEN r(<<"file", SP, "path", SP, "must", SP, "be", SP, "specified">>, "nil", dirs, files)
       ELSE IF ~mk.ok THEN r(<<>>, ErrMkdir, dirs, files)
       ELSE IF ~wr.ok THEN r(<<>>, ErrWrite, mk.dirs, files)
       ELSE r(ObservationSuccess, "nil", mk.dirs, wr.files)

\* what python3 -c can come back with: its combined output and how it ended
\* ("ok" exit 0, "exit" non-zero exit, "spawn" it could not be run)
PythonOutcomes ==
    { [end |-> "ok", output |-> <<"3", NL>>],
      [end |-> "ok", output |-> <<>>],
      [end |-> "exit", output |-> <<"Traceback", NL>>],
      [end |-> "exit", output |-> <<>>],
      [end |-> "spawn", output |-> <<>>] }

\* runPythonAction, given what the interpreter did
runPythonAction(o) ==
    IF o.end = "exit" THEN [obs |-> o.output, err |-> "nil"]
    ELSE IF o.end = "spawn" THEN [obs |-> <<>>, err |-> ErrSpawn]
    ELSE LET outputStr == TrimRight(o.output, {NL})
         IN [obs |-> IF outputStr = <<>> THEN ObservationSuccessWithNoOutput ELSE outputStr,
             err |-> "nil"]

\* what the search request can come back with: the result lines, or a failure
SearchOutcomes ==
    { [end |-> "ok", output |-> <<"1.", SP, "title", ":", SP, "desc">>],
      [end |-> "ok", output |-> <<>>],
      [end |-> "fail", output |-> <<>>] }

\* runSearchAction, given what the request did
runSearchAction(s, o) ==
    IF s.Input = <<>>
    THEN [obs |-> <<"query", SP, "must", SP, "be", SP, "specified">>, err |-> "nil"]
    ELSE IF o.end = "fail" THEN [obs |-> <<>>, err |-> ErrSearch]
    ELSE [obs |-> o.output, err |-> "nil"]

\* a reply as the model writes it
ReplyText(t, a, input) ==
    <<"thought", ":", SP>> \o t \o <<NL, "action", ":", SP>> \o a
      \o <<NL, "input", ":", NL, FENCE, NL>> \o input \o <<NL, FENCE, NL>>

T == <<"t">>

\* a here-document of one line
HereDocInput == Join(<<CmdHereDoc, <<"x">>, HereDocEnd>>, NL)

ShellInputs ==
    { Join(<<CmdEchoHello, CmdPwd>>, NL),
      Join(<<CmdPwd, CmdCdTmp>>, NL),
      Join(<<CmdWarn, CmdFalse>>, NL),
      CmdFalse,
      CmdLsNope,
      CmdExit3,
      CmdCdComma,
      Join(<<CmdCdTmp, CmdPrintf>>, NL),
      CmdBoth,
      HereDocInput,
      CmdEchoSentinel,
      CmdEchoToken }

FileInputs ==
    { <<"path", ":", SP, "out", SLASH, "f", NL, "content", ":", SP, "x">>,
      <<"path", ":", SP, "notes", SLASH, "f", NL, "content", ":", SP, "x">>,
      <<"path", ":", SP, "a", SLASH, "b", SLASH, "f", NL, "content", ":", SP, "x", SP, "y">>,
      <<"content", ":", SP, "x">>,
      <<"x">> }

\* the reply texts the model collaborator answers with
Replies ==
    { <<NL>>,
      <<"thought", ":", SP, "t", NL, "action", ":", SP, "done", NL>>,
      ReplyText(T, <<"bogus">>, <<"x">>),
      <<"action", ":", SP, "shell", NL, "input", ":", NL, FENCE, NL, "pwd", NL, FENCE>>,
      ReplyText(T, <<"python">>, <<"print">>),
      ReplyText(T, <<"search">>, <<"q">>) }
    \cup { ReplyText(T, <<"shell">>, i) : i \in ShellInputs }
    \cup { ReplyText(T, <<"file">>, i) : i \in FileInputs }

Msg(role, content) == [Role |-> role, Content |-> content]

SystemPrompt == <<"prompt">>
Task == <<"task">>

\* cmd.Wait: an error when Wait was called before, and when the process ended
\* with a status other than 0; bash ends, at the end of its input, with $?
ErrWaitAgain == "exec: Wait was already called"
ErrExitStatus == "exit status"
Wait(already, status) ==
    IF already THEN ErrWaitAgain
    ELSE IF status # 0 THEN ErrExitStatus
    ELSE "nil"

\* Shell.Stop
ShellStop ==
    /\ stopCalls' = stopCalls + 1
    /\ IF stdinPipe = "nil"
       THEN /\ stopRet' = "nil"
            /\ UNCHANGED <<stdinPipe, shAlive, waited>>
       ELSE /\ stdinPipe' = "closed"
            /\ shAlive' = FALSE
            /\ waited' = TRUE
            /\ stopRet' = Wait(waited, shStatus)

\* Stop called at the normal end of Run only, instead of being deferred
FinishNoStop(r, o) ==
    /\ pc' = "returned"
    /\ ret' = r
    /\ outcome' = o
    /\ IF r = "nil" THEN ShellStop ELSE UNCHANGED <<stopCalls, stopRet, waited, stdinPipe, shAlive>>

\* Run returns r (or panics): the deferred r.shell.Stop() runs
Finish(r, o) ==
    /\ pc' = "returned"
    /\ ret' = r
    /\ outcome' = o
    /\ ShellStop

\* the loop goes round again
Continue ==
    /\ pc' = "loop"
    /\ UNCHANGED <<ret, outcome, stopCalls, stopRet, waited, stdinPipe, shAlive>>

\* Run returns the error e: a failed completion request, or
\* fmt.Errorf("failed to run command: %v", e) for a failed dispatch
Fatal(e) ==
    /\ Finish(e, "error")
    /\ UNCHANGED <<messages, numStep, done>>

\* the budget test done before the counter is advanced
ObserveTestFirst(s, obs) ==
    /\ messages' = messages \o << Msg("assistant", encodeStep(s)),
                                  Msg("user", encodeStep(Step(<<>>, <<>>, <<>>, obs))) >>
    /\ numStep' = numStep + 1
    /\ done' = done
    /\ IF numStep > maxSteps THEN Finish("nil", "exhausted") ELSE Continue

\* the observation added to the history before the proposal
ObserveSwapped(s, obs) ==
    /\ messages' = messages \o << Msg("user", encodeStep(Step(<<>>, <<>>, <<>>, obs))),
                                  Msg("assistant", encodeStep(s)) >>
    /\ numStep' = numStep + 1
    /\ done' = done
    /\ IF numStep + 1 > maxSteps THEN Finish("nil", "exhausted") ELSE Continue

\* the end of an iteration that dispatched: lines 564..572 of Run
Observe(s, obs) ==
    /\ messages' = messages \o << Msg("assistant", encodeStep(s)),
                                  Msg("user", encodeStep(Step(<<>>, <<>>, <<>>, obs))) >>
    /\ numStep' = numStep + 1
    /\ done' = done
    /\ IF numStep + 1 > maxSteps THEN Finish("nil", "exhausted") ELSE Continue

\* session.GetCompletion: the reply with its trailing newlines removed
GetCompletion(raw) == TrimRight(raw, {NL})

\* the directories --workdir is given: its default, and another one
ConfigWorkDirs == { <<SLASH, "root">>, <<SLASH, "tmp">> }

\* the program is started with --workdir /tmp, a directory other than the
\* one it is started in
WorkDirFlag == <<SLASH, "tmp">>

\* no action dispatched yet by the version with cd
NoCommand ==
    [action |-> <<>>, input |-> <<>>, dir |-> <<>>, output |-> <<>>, end |-> "none",
     feedback |-> <<>>, Feedback |-> <<>>, err |-> "nil"]

RunnerInit ==
    /\ pc = "init"
    /\ numStep = 1
    /\ done = FALSE
    /\ ret = "none"
    /\ outcome = "none"
    /\ messages = << Msg("system", SystemPrompt) >>
    /\ reply = <<>>
    /\ curStep = ZeroStep
    /\ cmds = <<>>
    /\ workDir = <<>>
    /\ stdinPipe = "nil"
    /\ runStdout = <<>>
    /\ runStderr = <<>>
    /\ shAlive = FALSE
    /\ shStdin = <<>>
    /\ shPWD = ProcCwd
    /\ shStatus = 0
    /\ stdoutPipe = <<>>
    /\ stderrPipe = <<>>
    /\ outR = Scanning
    /\ errR = Scanning
    /\ fsDirs = InitDirs
    /\ fsFiles = InitFiles
    /\ requests = 0
    /\ retries = 0
    /\ dispatches = 0
    /\ stopCalls = 0
    /\ stopRet = "none"
    /\ waited = FALSE
    /\ stdinWrites = 0
    /\ curTruth = NoTruth
    /\ shTruth = <<>>
    /\ runLog = <<>>
    /\ rWorkDir = <<>>
    /\ cdSteps = 0
    /\ cdLast = NoCommand

CodecIdle ==
    /\ cpc = "idle"
    /\ cIn = <<>>
    /\ cOut = <<>>

Init ==
    /\ RunnerInit
    /\ CodecIdle
    /\ maxSteps \in 0..MaxBudget
    /\ configWorkDir = WorkDirFlag

\* Run up to the loop: shell.Start succeeds, Stop is deferred, the task is added
RunStart ==
    /\ pc = "init"
    /\ pc' = "loop"
    /\ stdinPipe' = "open"
    /\ shAlive' = TRUE
    /\ messages' = Append(messages, Msg("user", Task))
    /\ UNCHANGED <<maxSteps, configWorkDir, numStep, done, ret, outcome, reply, curStep, cmds>>
    /\ UNCHANGED <<workDir, runStdout, runStderr>>
    /\ UNCHANGED <<shStdin, shPWD, shStatus, stdoutPipe, stderrPipe, outR, errR>>
    /\ UNCHANGED <<fsVars, histVars, codecVars, cdVars>>

\* shell.Start fails: Run returns the error before Stop is deferred
RunStartFails ==
    /\ pc = "init"
    /\ pc' = "returned"
    /\ ret' = ErrStart
    /\ outcome' = "error"
    /\ UNCHANGED <<maxSteps, configWorkDir, numStep, done, messages, reply, curStep, cmds>>
    /\ UNCHANGED <<shellVars, procVars, fsVars, histVars, codecVars, cdVars>>

AwaitReply ==
    /\ pc = "loop"
    /\ requests < MaxRequests
    /\ requests' = requests + 1

\* the request recorded in the history before it is sent, as Session.Send did
RunCompletionFailsRecorded ==
    /\ AwaitReply
    /\ Finish(ErrCompletion, "error")
    /\ messages' = Append(messages, Msg("user", <<>>))
    /\ reply' = <<>>
    /\ UNCHANGED <<maxSteps, configWorkDir, numStep, done, curStep, cmds, workDir, runStdout, runStderr>>
    /\ UNCHANGED <<shStdin, shPWD, shStatus, stdoutPipe, stderrPipe, outR, errR>>
    /\ UNCHANGED <<fsVars, codecVars, cdVars>>
    /\ UNCHANGED <<retries, dispatches, stdinWrites, curTruth, shTruth, runLog>>

\* GetCompletion returns an error
RunCompletionFails ==
    /\ AwaitReply
    /\ Fatal(ErrCompletion)
    /\ reply' = <<>>
    /\ UNCHANGED <<maxSteps, configWorkDir, curStep, cmds, workDir, runStdout, runStderr>>
    /\ UNCHANGED <<shStdin, shPWD, shStatus, stdoutPipe, stderrPipe, outR, errR>>
    /\ UNCHANGED <<fsVars, codecVars, cdVars>>
    /\ UNCHANGED <<retries, dispatches, stdinWrites, curTruth, shTruth, runLog>>

\* the switch on s.Action in Run: the action names it dispatches
Dispatchable == {<<"file">>, <<"python">>, <<"shell">>, <<"search">>}

\* an iteration that ends in continue counted as a step
RunRetryCounted ==
    /\ AwaitReply
    /\ \E raw \in Replies :
         LET rp == GetCompletion(raw)
             d == decodeStep(rp)
         IN /\ \/ rp = <<>>
               \/ rp # <<>> /\ d.kind = "error"
               \/ rp # <<>> /\ d.kind = "step" /\ d.s.Action # <<"done">>
                    /\ d.s.Action \notin Dispatchable
            /\ reply' = rp
    /\ retries' = retries + 1
    /\ numStep' = numStep + 1
    /\ UNCHANGED <<pc, maxSteps, configWorkDir, done, ret, outcome, messages, curStep, cmds>>
    /\ UNCHANGED <<shellVars, procVars, fsVars, codecVars, cdVars>>
    /\ UNCHANGED <<dispatches, stopCalls, stopRet, waited, stdinWrites, curTruth, shTruth, runLog>>

\* an iteration that ends in continue: empty reply, decodeStep error,
\* errInvalidAction
RunRetry ==
    /\ AwaitReply
    /\ \E raw \in Replies :
         LET rp == GetCompletion(raw)
             d == decodeStep(rp)
         IN /\ \/ rp = <<>>
               \/ rp # <<>> /\ d.kind = "error"
               \/ rp # <<>> /\ d.kind = "step" /\ d.s.Action # <<"done">>
                    /\ d.s.Action \notin Dispatchable
            /\ reply' = rp
    /\ retries' = retries + 1
    /\ UNCHANGED <<pc, maxSteps, configWorkDir, numStep, done, ret, outcome, messages, curStep, cmds>>
    /\ UNCHANGED <<shellVars, procVars, fsVars, codecVars, cdVars>>
    /\ UNCHANGED <<dispatches, stopCalls, stopRet, waited, stdinWrites, curTruth, shTruth, runLog>>

\* the done branch recording the proposal, as session-less versions did
DoneHistoryAppends(msgs, s) == Append(msgs, Msg("assistant", encodeStep(s)))

\* what the done branch of Run leaves of the history
DoneHistory(msgs, s) == msgs

\* the reply decodes to action done
RunDone ==
    /\ AwaitReply
    /\ \E raw \in Replies :
         LET rp == GetCompletion(raw)
             d == decodeStep(rp)
         IN /\ rp # <<>>
            /\ d.kind = "step"
            /\ d.s.Action = <<"done">>
            /\ reply' = rp
            /\ curStep' = d.s
            /\ messages' = DoneHistory(messages, d.s)
    /\ done' = TRUE
    /\ Finish("nil", "done")
    /\ UNCHANGED <<maxSteps, configWorkDir, numStep, cmds, workDir, runStdout, runStderr>>
    /\ UNCHANGED <<shStdin, shPWD, shStatus, stdoutPipe, stderrPipe, outR, errR>>
    /\ UNCHANGED <<fsVars, codecVars, cdVars>>
    /\ UNCHANGED <<retries, dispatches, stdinWrites, curTruth, shTruth, runLog>>

\* the end of a dispatch that did not go through the shell
AfterDispatch(s, r) ==
    IF r.err # "nil" THEN Fatal(r.err) ELSE Observe(s, r.obs)

\* the reply decodes to a file action
RunFile ==
    /\ AwaitReply
    /\ \E raw \in Replies :
         LET rp == GetCompletion(raw)
             d == decodeStep(rp)
             r == runFileAction(d.s, workDir, fsDirs, fsFiles)
         IN /\ rp # <<>>
            /\ d.kind = "step"
            /\ d.s.Action = <<"file">>
            /\ reply' = rp
            /\ curStep' = d.s
            /\ fsDirs' = r.dirs
            /\ fsFiles' = r.files
            /\ AfterDispatch(d.s, r)
    /\ dispatches' = dispatches + 1
    /\ UNCHANGED <<maxSteps, configWorkDir, cmds, workDir, runStdout, runStderr>>
    /\ UNCHANGED <<shStdin, shPWD, shStatus, stdoutPipe, stderrPipe, outR, errR>>
    /\ UNCHANGED <<codecVars, cdVars, retries, stdinWrites, curTruth, shTruth, runLog>>

\* the reply decodes to a python action
RunPython ==
    /\ AwaitReply
    /\ \E raw \in Replies, o \in PythonOutcomes :
         LET rp == GetCompletion(raw)
             d == decodeStep(rp)
         IN /\ rp # <<>>
            /\ d.kind = "step"
            /\ d.s.Action = <<"python">>
            /\ reply' = rp
            /\ curStep' = d.s
            /\ AfterDispatch(d.s, runPythonAction(o))
    /\ dispatches' = dispatches + 1
    /\ UNCHANGED <<maxSteps, configWorkDir, cmds, workDir, runStdout, runStderr>>
    /\ UNCHANGED <<shStdin, shPWD, shStatus, stdoutPipe, stderrPipe, outR, errR>>
    /\ UNCHANGED <<fsVars, codecVars, cdVars, retries, stdinWrites, curTruth, shTruth, runLog>>

\* the reply decodes to a search action
RunSearch ==
    /\ AwaitReply
    /\ \E raw \in Replies, o \in SearchOutcomes :
         LET rp == GetCompletion(raw)
             d == decodeStep(rp)
         IN /\ rp # <<>>
            /\ d.kind = "step"
            /\ d.s.Action = <<"search">>
            /\ reply' = rp
            /\ curStep' = d.s
            /\ AfterDispatch(d.s, runSearchAction(d.s, o))
    /\ dispatches' = dispatches + 1
    /\ UNCHANGED <<maxSteps, configWorkDir, cmds, workDir, runStdout, runStderr>>
    /\ UNCHANGED <<shStdin, shPWD, shStatus, stdoutPipe, stderrPipe, outR, errR>>
    /\ UNCHANGED <<fsVars, codecVars, cdVars, retries, stdinWrites, curTruth, shTruth, runLog>>

\* the first half of Shell.Run(cmd): the command and the trailer are written
\* to bash's standard input; a write to a pipe nobody reads fails
RunWrite(cmd, rest) ==
    IF shAlive
    THEN /\ shStdin' = shStdin \o cmd \o <<NL>> \o Trailer \o <<NL>>
         /\ stdinWrites' = stdinWrites + 1
         /\ runStdout' = <<>>
         /\ runStderr' = <<>>
         /\ cmds' = rest
         /\ pc' = "select"
         /\ UNCHANGED <<ret, outcome, stopCalls, stopRet, waited, stdinPipe, shAlive, messages, numStep, done>>
    ELSE /\ Fatal(ErrPipe)
         /\ UNCHANGED <<shStdin, stdinWrites, runStdout, runStderr, cmds>>

\* the reply decodes to a shell action: runShellAction splits the input into
\* lines and calls Shell.Run on the first
RunShell ==
    /\ AwaitReply
    /\ \E raw \in Replies :
         LET rp == GetCompletion(raw)
             d == decodeStep(rp)
             commands == Split(d.s.Input, NL)
         IN /\ rp # <<>>
            /\ d.kind = "step"
            /\ d.s.Action = <<"shell">>
            /\ reply' = rp
            /\ curStep' = d.s
            /\ RunWrite(commands[1], Tail(commands))
    /\ dispatches' = dispatches + 1
    /\ UNCHANGED <<maxSteps, configWorkDir, workDir, shPWD, shStatus, stdoutPipe, stderrPipe, outR, errR>>
    /\ UNCHANGED <<fsVars, codecVars, cdVars, retries, curTruth, shTruth, runLog>>

\* runShellAction observing the stdout of the Run before as well
AfterShellRunKeepsEarlier(rc, stdout, stderr) ==
    IF rc # 0
    THEN /\ Observe(curStep, IF Len(stderr) = 0 THEN FailedExitCode(rc) ELSE stderr)
         /\ UNCHANGED <<shStdin, stdinWrites, runStdout, runStderr, cmds>>
    ELSE IF Len(cmds) > 0
    THEN RunWrite(cmds[1], Tail(cmds))
    ELSE /\ Observe(curStep,
                    IF Len(stdout) = 0 THEN ObservationSuccessWithNoOutput
                    ELSE IF Len(runLog) > 0
                         THEN runLog[Len(runLog)].stdout \o <<NL>> \o stdout
                         ELSE stdout)
         /\ UNCHANGED <<shStdin, stdinWrites, runStdout, runStderr, cmds>>

\* runShellAction once Shell.Run has returned (rc, stdout, stderr) for a
\* command: stop on a failure, run the next command, or observe the output
AfterShellRun(rc, stdout, stderr) ==
    IF rc # 0
    THEN /\ Observe(curStep, IF Len(stderr) = 0 THEN FailedExitCode(rc) ELSE stderr)
         /\ UNCHANGED <<shStdin, stdinWrites, runStdout, runStderr, cmds>>
    ELSE IF Len(cmds) > 0
    THEN RunWrite(cmds[1], Tail(cmds))
    ELSE /\ Observe(curStep, IF Len(stdout) = 0 THEN ObservationSuccessWithNoOutput ELSE stdout)
         /\ UNCHANGED <<shStdin, stdinWrites, runStdout, runStderr, cmds>>

\* the text before the sentinel on its line thrown away
RunRecvStdoutDropsPrefix ==
    /\ pc = "select"
    /\ outR.st = "send"
    /\ outR' = Scanning
    /\ \E line \in {outR.line} :
       \E magicIndex \in {Index(line, MAGIC)} :
       \E info \in {IF magicIndex = -1 THEN <<>>
                    ELSE Split(SliceFrom(line, magicIndex), COMMA)} :
       \E stdout \in {runStdout} :
          IF magicIndex = -1
          THEN /\ runStdout' = Append(runStdout, line)
               /\ UNCHANGED <<pc, numStep, done, ret, outcome, messages, cmds>>
               /\ UNCHANGED <<workDir, stdinPipe, runStderr, shAlive, shStdin>>
               /\ UNCHANGED <<stopCalls, stopRet, waited, stdinWrites, runLog>>
          ELSE IF Len(info) < 3
          THEN /\ Finish("panic", "panic")
               /\ UNCHANGED <<numStep, done, messages, cmds, workDir, runStdout, runStderr>>
               /\ UNCHANGED <<shStdin, stdinWrites, runLog>>
          ELSE \E rc \in {Atoi(info[2])} :
               \E out \in {Join(stdout, NL)} :
               \E err \in {Join(runStderr, NL)} :
                 /\ workDir' = info[3]
                 /\ runLog' = Append(runLog, [rc |-> rc, stdout |-> out, stderr |-> err,
                                              workDir |-> info[3]])
                 /\ AfterShellRun(rc, out, err)
    /\ UNCHANGED <<maxSteps, configWorkDir, reply, curStep, shPWD, shStatus, stdoutPipe, stderrPipe, errR>>
    /\ UNCHANGED <<fsVars, codecVars, cdVars, requests, retries, dispatches, curTruth, shTruth>>

\* select in Shell.Run takes a line from stdoutCh
RunRecvStdout ==
    /\ pc = "select"
    /\ outR.st = "send"
    /\ outR' = Scanning
    /\ \E line \in {outR.line} :
       \E magicIndex \in {Index(line, MAGIC)} :
       \E info \in {IF magicIndex = -1 THEN <<>>
                    ELSE Split(SliceFrom(line, magicIndex), COMMA)} :
       \E stdout \in {IF magicIndex > 0 THEN Append(runStdout, SliceTo(line, magicIndex))
                      ELSE runStdout} :
          IF magicIndex = -1
          THEN /\ runStdout' = Append(runStdout, line)
               /\ UNCHANGED <<pc, numStep, done, ret, outcome, messages, cmds>>
               /\ UNCHANGED <<workDir, stdinPipe, runStderr, shAlive, shStdin>>
               /\ UNCHANGED <<stopCalls, stopRet, waited, stdinWrites, runLog>>
          ELSE IF Len(info) < 3
          THEN /\ Finish("panic", "panic")
               /\ UNCHANGED <<numStep, done, messages, cmds, workDir, runStdout, runStderr>>
               /\ UNCHANGED <<shStdin, stdinWrites, runLog>>
          ELSE \E rc \in {Atoi(info[2])} :
               \E out \in {Join(stdout, NL)} :
               \E err \in {Join(runStderr, NL)} :
                 /\ workDir' = info[3]
                 /\ runLog' = Append(runLog, [rc |-> rc, stdout |-> out, stderr |-> err,
                                              workDir |-> info[3]])
                 /\ AfterShellRun(rc, out, err)
    /\ UNCHANGED <<maxSteps, configWorkDir, reply, curStep, shPWD, shStatus, stdoutPipe, stderrPipe, errR>>
    /\ UNCHANGED <<fsVars, codecVars, cdVars, requests, retries, dispatches, curTruth, shTruth>>

\* stderrCh read only once stdout has ended
RunRecvStderrAfterStdout ==
    /\ pc = "select"
    /\ outR.st = "exit"
    /\ errR.st = "send"
    /\ errR' = Scanning
    /\ runStderr' = Append(runStderr, errR.line)
    /\ UNCHANGED <<runnerVars, workDir, stdinPipe, runStdout>>
    /\ UNCHANGED <<shAlive, shStdin, shPWD, shStatus, stdoutPipe, stderrPipe, outR>>
    /\ UNCHANGED <<fsVars, histVars, codecVars, cdVars>>

\* select in Shell.Run takes a line from stderrCh
RunRecvStderr ==
    /\ pc = "select"
    /\ errR.st = "send"
    /\ errR' = Scanning
    /\ runStderr' = Append(runStderr, errR.line)
    /\ UNCHANGED <<runnerVars, workDir, stdinPipe, runStdout>>
    /\ UNCHANGED <<shAlive, shStdin, shPWD, shStatus, stdoutPipe, stderrPipe, outR>>
    /\ UNCHANGED <<fsVars, histVars, codecVars, cdVars>>

Next ==
    \/ RunStart
    \/ RunStartFails
    \/ RunCompletionFails
    \/ RunRetry
    \/ RunDone
    \/ RunFile
    \/ RunPython
    \/ RunSearch
    \/ RunShell
    \/ RunRecvStdout
    \/ RunRecvStderr
    \/ BashStep
    \/ StdoutScan
    \/ StderrScan

Spec == Init /\ [][Next]_vars

\* bash and the two goroutines keep running, and select takes a case that
\* is ready; the runs are those of a budget of at most MaxLiveBudget steps
LiveInit ==
    /\ Init
    /\ maxSteps <= MaxLiveBudget

SpecLive ==
    /\ LiveInit
    /\ [][Next]_vars
    /\ WF_vars(BashStep)
    /\ WF_vars(StdoutScan)
    /\ WF_vars(StderrScan)
    /\ WF_vars(RunRecvStdout)
    /\ WF_vars(RunRecvStderr)

\* ------------------------------------------ Shell.Stop called more than once
\* a further call of Shell.Stop by a holder of the Shell: after Run has
\* returned (its deferred call made), or when bash has exited by itself
StopAgain ==
    /\ stopCalls < MaxStopCalls
    /\ stdinPipe # "nil"
    /\ pc = "returned" \/ ~shAlive
    /\ ShellStop
    /\ UNCHANGED <<runnerVars, workDir, runStdout, runStderr>>
    /\ UNCHANGED <<shStdin, shPWD, shStatus, stdoutPipe, stderrPipe, outR, errR>>
    /\ UNCHANGED <<fsVars, codecVars, cdVars>>
    /\ UNCHANGED <<requests, retries, dispatches, stdinWrites, curTruth, shTruth, runLog>>

StopNext ==
    \/ Next
    \/ StopAgain

SpecStop == Init /\ [][StopNext]_vars

\* ------------------------------------------------------- the codec alone
\* the lines reply texts are made of
ReplyLines ==
    { <<"thought", ":", SP, "t">>,
      <<"action", ":", SP, "done">>,
      <<"action", ":", SP, "shell">>,
      <<"action", ":", SP, "bogus">>,
      <<"input", ":">>,
      <<FENCE>>,
      <<"x">>,
      <<>> }

SeqsUpTo(S, n) == UNION { [1..k -> S] : k \in 0..n }

\* the lines that follow the input: line of a reply
PayloadLines ==
    { <<FENCE>>,
      <<"x">>,
      <<"input", ":">>,
      <<"thought", ":", SP, "u">>,
      <<"action", ":", SP, "shell">>,
      <<"Action", ":", SP, "file">>,
      <<>> }

\* the lines a reply with a payload begins with
PayloadHeader ==
    << <<"thought", ":", SP, "t">>, <<"action", ":", SP, "done">>, <<"input", ":">> >>

\* the Steps the round trip is tried on
StepsUnderTest ==
    { Step(t, a, i, <<>>) :
        t \in {<<>>, T, <<"t", SP, "u">>},
        a \in {<<"file">>, <<"shell">>, <<"python">>, <<"search">>, <<"cd">>,
                <<"done">>, <<"bogus">>, <<>>},
        i \in SeqsUpTo({"x", NL, FENCE}, MaxInputLen) }

\* the codec is given a reply text of at most MaxReplyLines lines, a reply
\* with at most MaxPayloadLines lines after its input: line, or a Step
CodecInit ==
    /\ RunnerInit
    /\ maxSteps = 0
    /\ configWorkDir = ProcCwd
    /\ cpc = "ready"
    /\ cOut = <<>>
    /\ \/ \E n \in 0..MaxReplyLines : \E f \in [1..n -> ReplyLines] : cIn = [text |-> Join(f, NL)]
       \/ \E f \in SeqsUpTo(PayloadLines, MaxPayloadLines) :
             cIn = [text |-> Join(PayloadHeader \o f, NL)]
       \/ \E x \in StepsUnderTest : cIn = [s |-> x]

\* decodeStep(reply)
CodecDecode ==
    /\ cpc = "ready"
    /\ "text" \in DOMAIN cIn
    /\ cOut' = decodeStep(cIn.text)
    /\ cpc' = "decoded"
    /\ UNCHANGED <<cIn, runnerVars, shellVars, procVars, fsVars, histVars, cdVars>>

\* decodeStep(encodeStep(s))
CodecRoundTrip ==
    /\ cpc = "ready"
    /\ "s" \in DOMAIN cIn
    /\ cOut' = decodeStep(encodeStep(cIn.s))
    /\ cpc' = "roundtrip"
    /\ UNCHANGED <<cIn, runnerVars, shellVars, procVars, fsVars, histVars, cdVars>>

\* s.Validate(), by the current version and by the version with cd
CodecValidate ==
    /\ cpc = "ready"
    /\ "s" \in DOMAIN cIn
    /\ cOut' = [cur |-> Validate(cIn.s), cd |-> ValidateWithCd(cIn.s)]
    /\ cpc' = "validated"
    /\ UNCHANGED <<cIn, runnerVars, shellVars, procVars, fsVars, histVars, cdVars>>

\* encodeStep(s)
CodecEncode ==
    /\ cpc = "ready"
    /\ "s" \in DOMAIN cIn
    /\ cOut' = [text |-> encodeStep(cIn.s)]
    /\ cpc' = "encoded"
    /\ UNCHANGED <<cIn, runnerVars, shellVars, procVars, fsVars, histVars, cdVars>>

CodecNext ==
    \/ CodecDecode
    \/ CodecRoundTrip
    \/ CodecValidate
    \/ CodecEncode

SpecCodec == CodecInit /\ [][CodecNext]_vars

\* --------------------------------- the dispatcher of the version with cd
FeedbackSuccess == <<"Success">>

\* Runner.getWorkDir
getWorkDir(rwd, cfg) == IF rwd = <<>> THEN cfg ELSE rwd

\* runFileCommand: the feedback, the error it returned and the file system it
\* leaves; a failed MkdirAll or WriteFile is feedback, not an error
runFileCommand(cmd, rwd, cfg, dirs, files) ==
    LET input == Unmarshal(cmd.Input)
        path == IF IsAbs(input.Path) THEN input.Path
                ELSE PathJoin(getWorkDir(rwd, cfg), input.Path)
        mk == MkdirAll(dirs, files, Dir(path))
        wr == WriteFile(mk.dirs, files, path, input.Content)
        r(o, e, d, f) == [feedback |-> o, err |-> e, dirs |-> d, files |-> f]
    IN IF ~input.ok THEN r(<<>>, ErrYaml, dirs, files)
       ELSE IF input.Path = <<>>
            THEN r(<<"file", SP, "path", SP, "must", SP, "be", SP, "specified">>, "nil", dirs, files)
       ELSE IF ~mk.ok THEN r(<<ErrMkdir>>, "nil", dirs, files)
       ELSE IF ~wr.ok THEN r(<<ErrWrite>>, "nil", mk.dirs, files)
       ELSE r(FeedbackSuccess, "nil", mk.dirs, wr.files)

\* runChangeDirCommand: the feedback, the error and the new Runner.WorkDir
runChangeDirCommand(cmd, rwd, cfg) ==
    LET input == Unmarshal(cmd.Input)
        dir == IF IsAbs(input.Dir) THEN input.Dir
               ELSE PathJoin(getWorkDir(rwd, cfg), input.Dir)
        r(o, e, w) == [feedback |-> o, err |-> e, WorkDir |-> w]
    IN IF ~input.ok THEN r(<<>>, ErrYaml, rwd)
       ELSE IF input.Dir = <<>>
            THEN r(<<"directory", SP, "path", SP, "must", SP, "be", SP, "specified">>, "nil", rwd)
       ELSE r(FeedbackSuccess, "nil", Clean(dir))

ErrChdir == "chdir: no such file or directory"

\* runPythonCommand of that version, given what the interpreter did: python3
\* is started in getWorkDir()
runPythonCommand(cmd, rwd, cfg, dirs, o) ==
    LET wd == getWorkDir(rwd, cfg)
        r(f, e) == [feedback |-> f, err |-> e, dir |-> wd]
    IN IF Resolve(wd) \notin dirs THEN r(<<>>, ErrChdir)
       ELSE IF o.end = "exit" THEN r(o.output, "nil")
       ELSE IF o.end = "spawn" THEN r(<<>>, ErrSpawn)
       ELSE IF Len(o.output) = 0 THEN r(FeedbackSuccess \o <<SP, "(no", SP, "output)">>, "nil")
       ELSE r(o.output, "nil")

\* k lines of output, the i-th being the number i
RECURSIVE NumberedLines(_)
NumberedLines(k) == IF k = 0 THEN <<>> ELSE NumberedLines(k - 1) \o Itoa(k) \o <<NL>>

\* what bash -e -o pipefail -c can come back with: its standard output and how
\* it ended ("ok" exit 0, "exit" non-zero exit with its standard error)
ShellOutcomes ==
    { [end |-> "ok", output |-> NumberedLines(k), stderr |-> <<>>] : k \in 0..MaxOutputLines }
    \cup { [end |-> "ok", output |-> <<"1", NL, "2">>, stderr |-> <<>>],
           [end |-> "exit", output |-> <<>>, stderr |-> <<"boom", NL>>] }

OutputLog == <<"output.log">>

\* runShellCommand of that version, given what bash did: bash is started in
\* getWorkDir(), its output is written to output.log there, and the feedback
\* is the last five elements of the output split at newlines
runShellCommand(cmd, rwd, cfg, dirs, files, o) ==
    LET wd == getWorkDir(rwd, cfg)
        wr == WriteFile(dirs, files, PathJoin(wd, OutputLog), o.output)
        lines == Split(o.output, NL)
        r(f, e, fs) == [feedback |-> f, err |-> e, dir |-> wd, files |-> fs]
    IN IF Resolve(wd) \notin dirs THEN r(<<>>, ErrChdir, files)
       ELSE IF o.end = "exit" THEN r(o.stderr, "nil", files)
       ELSE IF ~wr.ok THEN r(<<>>, ErrWrite, files)
       ELSE IF Len(o.output) = 0
            THEN r(FeedbackSuccess \o <<SP, "(no", SP, "output)">>, "nil", wr.files)
       ELSE IF Len(lines) > 5
            THEN r(Join(SubSeq(lines, Len(lines) - 4, Len(lines)), NL), "nil", wr.files)
       ELSE r(o.output, "nil", wr.files)

\* what runCommand makes of a result: the Command it returns has the feedback
\* without its trailing newlines
Dispatched(action, input, dir, o, r) ==
    [action |-> action, input |-> input, dir |-> dir, output |-> o.output, end |-> o.end,
     feedback |-> r.feedback, Feedback |-> TrimRight(r.feedback, {NL}), err |-> r.err]

\* the payloads of the cd actions tried
ChangeDirInputs ==
    { <<"dir", ":", SP, "sub">>,
      <<"dir", ":", SP, "..">>,
      <<"dir", ":", SP, SLASH, "tmp">>,
      <<"dir", ":">> }

\* the payloads of the file actions tried
CdFileInputs ==
    FileInputs \cup
    { <<"path", ":", SP, SLASH, "tmp", SLASH, "f", NL, "content", ":", SP, "x">>,
      <<"path", ":", SP, "..", SLASH, "f", NL, "content", ":", SP, "x">> }

CdInit ==
    /\ RunnerInit
    /\ CodecIdle
    /\ maxSteps = 0
    /\ configWorkDir \in ConfigWorkDirs

\* runCommand, case "cd"
RunCommandChangeDir ==
    /\ cdSteps < MaxCdSteps
    /\ \E i \in ChangeDirInputs :
         LET r == runChangeDirCommand(Step(T, <<"cd">>, i, <<>>), rWorkDir, configWorkDir)
         IN /\ rWorkDir' = r.WorkDir
            /\ cdLast' = Dispatched(<<"cd">>, i, getWorkDir(rWorkDir, configWorkDir),
                                    [output |-> <<>>, end |-> "ok"], r)
    /\ cdSteps' = cdSteps + 1
    /\ UNCHANGED <<runnerVars, shellVars, procVars, fsVars, histVars, codecVars>>

\* runCommand, case "file"
RunCommandFile ==
    /\ cdSteps < MaxCdSteps
    /\ \E i \in CdFileInputs :
         LET r == runFileCommand(Step(T, <<"file">>, i, <<>>), rWorkDir, configWorkDir,
                                 fsDirs, fsFiles)
         IN /\ fsDirs' = r.dirs
            /\ fsFiles' = r.files
            /\ cdLast' = Dispatched(<<"file">>, i, getWorkDir(rWorkDir, configWorkDir),
                                    [output |-> <<>>, end |-> "ok"], r)
    /\ cdSteps' = cdSteps + 1
    /\ UNCHANGED <<runnerVars, shellVars, procVars, histVars, rWorkDir, codecVars>>

\* runCommand, case "python"
RunCommandPython ==
    /\ cdSteps < MaxCdSteps
    /\ \E o \in PythonOutcomes :
         LET r == runPythonCommand(Step(T, <<"python">>, <<"print">>, <<>>), rWorkDir,
                                   configWorkDir, fsDirs, o)
         IN cdLast' = Dispatched(<<"python">>, <<"print">>, r.dir, o, r)
    /\ cdSteps' = cdSteps + 1
    /\ UNCHANGED <<runnerVars, shellVars, procVars, fsVars, histVars, rWorkDir, codecVars>>

\* runCommand, case "shell"
RunCommandShell ==
    /\ cdSteps < MaxCdSteps
    /\ \E o \in ShellOutcomes :
         LET r == runShellCommand(Step(T, <<"shell">>, <<"seq">>, <<>>), rWorkDir,
                                  configWorkDir, fsDirs, fsFiles, o)
         IN /\ fsFiles' = r.files
            /\ cdLast' = Dispatched(<<"shell">>, <<"seq">>, r.dir, o, r)
    /\ cdSteps' = cdSteps + 1
    /\ UNCHANGED <<runnerVars, shellVars, procVars, fsDirs, histVars, rWorkDir, codecVars>>

CdNext ==
    \/ RunCommandChangeDir
    \/ RunCommandFile
    \/ RunCommandPython
    \/ RunCommandShell

SpecCd == CdInit /\ [][CdNext]_vars

\* ------------------------------------- the Session with Send and Rewind
\* the texts Send is called with
SendTexts == { Task, <<"x">> }

\* what CreateChatCompletion can come back with: an error, a response with a
\* first choice, or a response without choices
Completions ==
    { [kind |-> "error", text |-> <<>>],
      [kind |-> "empty", text |-> <<>>],
      [kind |-> "choice", text |-> <<"a">>],
      [kind |-> "choice", text |-> <<"b", NL>>] }

\* NewSession
SessionInit ==
    /\ RunnerInit
    /\ CodecIdle
    /\ maxSteps = 0
    /\ configWorkDir = WorkDirFlag

\* Session.Send(ctx, msg)
SessionSend ==
    /\ outcome # "panic"
    /\ requests < MaxSendCalls
    /\ requests' = requests + 1
    /\ \E msg \in SendTexts, c \in Completions :
         LET sent == Append(messages, Msg("user", msg))
             text == TrimRight(c.text, {NL})
         IN IF c.kind = "error"
            THEN messages' = sent /\ reply' = <<>> /\ outcome' = outcome
            ELSE IF c.kind = "empty"
            THEN messages' = sent /\ reply' = reply /\ outcome' = "panic"
            ELSE /\ messages' = Append(sent, Msg("assistant", text))
                 /\ reply' = text
                 /\ outcome' = outcome
    /\ UNCHANGED <<pc, maxSteps, configWorkDir, numStep, done, ret, curStep, cmds>>
    /\ UNCHANGED <<retries, dispatches, stopCalls, stopRet, waited, stdinWrites,
                   curTruth, shTruth, runLog>>
    /\ UNCHANGED <<shellVars, procVars, fsVars, cdVars, codecVars>>

\* Session.Rewind(): a slice bound below 0 is a run-time panic
SessionRewind ==
    /\ outcome # "panic"
    /\ IF Len(messages) = 1
       THEN UNCHANGED <<messages, outcome>>
       ELSE IF Len(messages) - 2 < 0
       THEN messages' = messages /\ outcome' = "panic"
       ELSE messages' = SubSeq(messages, 1, Len(messages) - 2) /\ outcome' = outcome
    /\ UNCHANGED <<pc, maxSteps, configWorkDir, numStep, done, ret, reply, curStep, cmds>>
    /\ UNCHANGED <<shellVars, procVars, fsVars, histVars, cdVars, codecVars>>

SessionNext ==
    \/ SessionSend
    \/ SessionRewind

SpecSession == SessionInit /\ [][SessionNext]_vars

\* ----------------------------------------------------------------- claims
TaskHistory == << Msg("system", SystemPrompt), Msg("user", Task) >>

\* C1 as stated: while the model has answered every request and has not
\* replied done, a run with budget N makes no more than N completion requests
\* (it ends after exactly N turns) and dispatches no more than N actions,
\* whatever the replies are.
C1_TurnsWithinBudget ==
    (maxSteps >= 1 /\ ~done /\ ret # ErrCompletion) =>
        (requests <= maxSteps /\ dispatches <= maxSteps)

\* C1 as amended: for a budget N >= 1 a run never dispatches more than N
\* actions and ends with the budget-exhausted outcome exactly when N
\* dispatches have been observed; replies that are empty, fail decoding or
\* name an unknown action are asked again without being counted, so the
\* number of completion requests is N plus the number of such replies, and a
\* run that got only such replies has not ended.
C1_BudgetCountsDispatches ==
    maxSteps >= 1 =>
      /\ dispatches <= maxSteps
      /\ numStep <= maxSteps + 1
      /\ (outcome = "exhausted") <=> (numStep = maxSteps + 1)
      /\ outcome = "exhausted" =>
           /\ dispatches = maxSteps
           /\ requests = maxSteps + retries
           /\ ret = "nil" /\ ~done
      /\ (requests >= 1 /\ retries = requests) => pc = "loop"

C1_Witness ==
    /\ outcome = "exhausted"
    /\ maxSteps = 2
    /\ retries >= 1

\* C2: when a reply decodes to action done, Run ends at once with the success
\* outcome (done set, nil returned); that iteration dispatches nothing and
\* appends nothing, so a run whose first reply is done ends after one
\* completion request with the history holding only the prompt and the task.
C2_DoneEndsRun ==
    done =>
      /\ pc = "returned" /\ ret = "nil" /\ outcome = "done"
      /\ dispatches = numStep - 1
      /\ Len(messages) = 2 * numStep
      /\ requests = 1 => (dispatches = 0 /\ messages = TaskHistory)

C2_Witness ==
    /\ done
    /\ requests = 1
    /\ curStep.Thought = T
    /\ curStep.Action = <<"done">>

\* the lines of a byte stream
LinesOf(bytes) ==
    IF bytes = <<>> THEN <<>>
    ELSE IF bytes[Len(bytes)] = NL THEN Split(SubSeq(bytes, 1, Len(bytes) - 1), NL)
    ELSE Split(bytes, NL)

\* nothing more can arrive for the Shell.Run in progress
Quiescent ==
    /\ ~shAlive \/ shStdin = <<>>
    /\ stdoutPipe = <<>> /\ stderrPipe = <<>>
    /\ outR.st # "send" /\ errR.st # "send"

\* no command up to the k-th has written the token itself
TokenFree(k) ==
    \A j \in 1..k :
        Index(IF j <= Len(shTruth) THEN shTruth[j].out ELSE curTruth.out, MAGIC) = -1

\* C3: a command that finishes with a non-zero status k has its Shell.Run
\* return k (with a nil error), the shell staying usable: every returned Run
\* reports the status its command finished with, and no Run is left waiting
\* with nothing more to come after its command finished with a non-zero status.
C3_NonZeroExitIsResult ==
    /\ \A k \in 1..Len(runLog) :
          TokenFree(k) => (k <= Len(shTruth) /\ runLog[k].rc = shTruth[k].rc)
    /\ (pc = "select" /\ shStatus # 0) => ~Quiescent

\* C4: after every Shell.Run returns, WorkDir() is the directory bash was in
\* when it ran the trailer, for every directory name.
C4_WorkDirIsShellPwd ==
    \A k \in 1..Len(runLog) :
        TokenFree(k) => (k <= Len(shTruth) /\ runLog[k].workDir = shTruth[k].pwd)

\* C5: Shell.Run returns as stdout and stderr exactly the lines its own
\* command wrote to each stream, under every interleaving of the two reader
\* goroutines and the caller.
C5_OutputBelongsToCommand ==
    \A k \in 1..Len(runLog) :
        TokenFree(k) =>
        /\ k <= Len(shTruth)
        /\ runLog[k].stderr = Join(LinesOf(shTruth[k].err), NL)
        /\ runLog[k].stdout = Join(LinesOf(shTruth[k].out), NL)

\* a is b up to one blank line at either end
SameUpToOneBlankLine(a, b) ==
    \E l \in {<<>>, <<NL>>}, r \in {<<>>, <<NL>>} : b = l \o a \o r \/ a = l \o b \o r

\* C6: for every Step that passes Validate, decodeStep(encodeStep(s)) is a
\* Step with the same thought and action and the same input up to one outer
\* blank line.
C6_RoundTrip ==
    (cpc = "roundtrip" /\ Validate(cIn.s) = "nil") =>
      /\ cOut.kind = "step"
      /\ cOut.s.Thought = cIn.s.Thought
      /\ cOut.s.Action = cIn.s.Action
      /\ SameUpToOneBlankLine(cOut.s.Input, cIn.s.Input)

\* the reply names the action bogus: its last action: line says so and is not
\* part of a payload (no input: line comes before it)
NamesBogus(lines) ==
    \E k \in 1..Len(lines) :
        /\ lines[k] = <<"action", ":", SP, "bogus">>
        /\ \A j \in (k + 1)..Len(lines) : ~HasPrefix(lines[j], <<"action", ":">>)
        /\ \A j \in 1..k : ~HasPrefix(lines[j], <<"input", ":">>)

\* C7: for every reply text decodeStep ends, within one loop iteration per
\* line, with a Step or an error and never with a panic; a reply whose action
\* is outside the recognised set comes back as an error.
C7_DecodeNeverCrashes ==
    cpc = "decoded" =>
      /\ cOut.kind \in {"step", "error"}
      /\ cOut.n <= Len(Split(cIn.text, NL))
      /\ cOut.kind = "step" => Validate(cOut.s) = "nil"
      /\ NamesBogus(Split(cIn.text, NL)) => (cOut.kind = "error" /\ cOut.err # "nil")

C7_Witness ==
    /\ cpc = "decoded"
    /\ NamesBogus(Split(cIn.text, NL))
    /\ cOut.kind = "error"
    /\ cOut.err = "invalid action value"

\* C8: once the shell has been started, every way Run ends (done, budget
\* exhausted, failed completion request, failed dispatch) calls Shell.Stop
\* exactly once, Stop is not called while Run is still going, and nothing is
\* written to the shell after it.
C8_StopExactlyOnce ==
    /\ [](/\ stopCalls <= 1
          /\ (pc = "returned" /\ stdinPipe # "nil") => stopCalls = 1
          /\ pc # "returned" => stopCalls = 0
          /\ stopCalls = 1 => stdinPipe = "closed")
    /\ [][stopCalls >= 1 => stdinWrites' = stdinWrites]_vars

C8_Witness ==
    /\ pc = "returned"
    /\ stopCalls = 1
    /\ outcome = "error"
    /\ ret = ErrMkdir
    /\ stdinWrites >= 1

\* C9: when the shell process has exited and both output streams have ended
\* before the sentinel was seen, Shell.Run is not left waiting: it has
\* returned (an error) to its caller.
C9_LostShellIsReported ==
    (~shAlive /\ stdinPipe = "open" /\ outR.st = "exit" /\ errR.st = "exit") => pc # "select"

\* C10: no outcome of an action itself makes Run return an error: a non-zero
\* exit code, stderr output and a file write that fails on a bad path each
\* end as an observation appended to the history.
C10_ActionOutcomesAreObservations ==
    ret \notin {ErrMkdir, ErrWrite}

\* the directory the dispatcher takes as current: the one the shell reported
\* last, the directory gptask runs in while no command has reported one
CurrentDir == IF workDir = <<>> THEN ProcCwd ELSE workDir

\* C11: a file action whose path is relative and nested, and whose path does
\* not run through a regular file or name a directory, leaves a file at
\* <current working directory>/<path> whose content is the payload's content,
\* with every parent directory of it existing, and does not make Run fail.
C11_FileWrittenUnderWorkDir ==
    LET input == Unmarshal(curStep.Input)
        target == Clean(CurrentDir \o <<SLASH>> \o input.Path)
    IN (/\ curStep.Action = <<"file">>
        /\ input.ok
        /\ ~IsAbs(input.Path)
        /\ Index(input.Path, SLASH) # -1
        /\ target \notin fsDirs
        /\ \A a \in Ancestors(Dir(target)) : ~IsFile(fsFiles, a))
       => /\ [path |-> target, content |-> input.Content] \in fsFiles
          /\ Ancestors(Dir(target)) \subseteq fsDirs
          /\ ret \notin {ErrMkdir, ErrWrite}

\* a/b/f written under /tmp after cd /tmp, neither /tmp/a nor /tmp/a/b
\* having existed
C11_Witness ==
    /\ curStep.Action = <<"file">>
    /\ workDir = <<SLASH, "tmp">>
    /\ [path |-> <<SLASH, "tmp", SLASH, "a", SLASH, "b", SLASH, "f">>,
        content |-> <<"x", SP, "y">>] \in fsFiles
    /\ <<SLASH, "tmp", SLASH, "a", SLASH, "b">> \in fsDirs
    /\ <<SLASH, "tmp", SLASH, "a">> \in fsDirs

\* the test the claim words: not done, and the thought or the input empty or
\* the action outside the set
Rejected(s, actions) ==
    /\ s.Action # <<"done">>
    /\ s.Thought = <<>> \/ s.Input = <<>> \/ s.Action \notin actions

\* C12 as stated: Validate rejects a step exactly when its action is not done
\* and its thought is empty, its input is empty or its action is not one of
\* file, shell, python, search, cd.
C12_ValidateAcceptsCd ==
    cpc = "validated" =>
        ((cOut.cur # "nil") <=>
            Rejected(cIn.s, {<<"file">>, <<"shell">>, <<"python">>, <<"search">>, <<"cd">>}))

\* C12 as amended: Validate rejects a step exactly when its action is not
\* done and its thought is empty, its input is empty or its action is not one
\* of file, shell, python, search; cd is one of the accepted actions only in
\* the version whose dispatcher has a cd action. A step whose action is done
\* is accepted by both, whatever its thought and input.
C12_ValidateRejectsExactly ==
    cpc = "validated" =>
      /\ (cOut.cur # "nil") <=>
            Rejected(cIn.s, {<<"file">>, <<"shell">>, <<"python">>, <<"search">>})
      /\ (cOut.cd # "nil") <=>
            Rejected(cIn.s, {<<"file">>, <<"shell">>, <<"python">>, <<"search">>, <<"cd">>})
      /\ cIn.s.Action = <<"done">> => (cOut.cur = "nil" /\ cOut.cd = "nil")

C12_Witness ==
    /\ cpc = "validated"
    /\ cIn.s = Step(T, <<"cd">>, <<"x">>, <<>>)
    /\ cOut.cur = "invalid action value"
    /\ cOut.cd = "nil"

\* the reply is empty, does not decode to a valid step, or names an action
\* the switch of Run has no case for
RetryReply(r) ==
    \/ r = <<>>
    \/ decodeStep(r).kind = "error"
    \/ /\ decodeStep(r).kind = "step"
       /\ decodeStep(r).s.Action \notin Dispatchable \cup {<<"done">>}

\* C13: when a completion request is answered with a reply that is empty,
\* fails decoding or validation, or names an action the dispatcher does not
\* recognise, Run does not return and dispatches nothing (nothing is written
\* to the shell or to the file system), the step counter and the history stay
\* as they were, and Run is back at the completion request.
C13_BadReplyIsAskedAgain ==
    [][(requests' = requests + 1 /\ ret' # ErrCompletion /\ RetryReply(reply')) =>
         /\ pc' = "loop" /\ ret' = "none" /\ outcome' = "none"
         /\ numStep' = numStep /\ messages' = messages
         /\ dispatches' = dispatches /\ stdinWrites' = stdinWrites
         /\ fsDirs' = fsDirs /\ fsFiles' = fsFiles]_vars

\* an action has been observed, then a reply naming the action bogus came
C13_Witness ==
    /\ reply = GetCompletion(ReplyText(T, <<"bogus">>, <<"x">>))
    /\ requests = 2 /\ retries = 1 /\ dispatches = 1
    /\ numStep = 2 /\ Len(messages) = 4
    /\ pc = "loop"

\* C14: when the completion request fails, Run returns that error in the same
\* step: the history, the step counter, the shell and the file system are as
\* they were before the request, and afterwards no request is made, nothing is
\* dispatched and the history does not change.
C14_CompletionFailureEndsRun ==
    /\ [](ret = ErrCompletion => (pc = "returned" /\ outcome = "error" /\ ~done))
    /\ [][(ret # ErrCompletion /\ ret' = ErrCompletion) =>
            /\ requests' = requests + 1
            /\ messages' = messages /\ numStep' = numStep
            /\ dispatches' = dispatches /\ stdinWrites' = stdinWrites
            /\ fsDirs' = fsDirs /\ fsFiles' = fsFiles]_vars
    /\ [][ret = ErrCompletion =>
            /\ requests' = requests /\ dispatches' = dispatches
            /\ messages' = messages /\ stdinWrites' = stdinWrites]_vars

\* the second request of a run fails, one action having been observed
C14_Witness ==
    /\ ret = ErrCompletion
    /\ pc = "returned"
    /\ requests = 2 /\ dispatches = 1
    /\ Len(messages) = 4

\* C15: once the task has been added, the history is the system message, the
\* task message, then one (assistant, user) pair per counted step, so that the
\* number of pairs is the step counter minus one; every step leaves the
\* history as it was or appends to it, and a pair that is appended begins with
\* the encoded proposal of the action being dispatched.
C15_HistoryIsAppendOnly ==
    /\ []((pc # "init" /\ ret # ErrStart) =>
            /\ Len(messages) = 2 + 2 * (numStep - 1)
            /\ SubSeq(messages, 1, 2) = TaskHistory
            /\ \A k \in 1..(numStep - 1) :
                  /\ messages[2 * k + 1].Role = "assistant"
                  /\ messages[2 * k + 2].Role = "user")
    /\ [][/\ Len(messages') >= Len(messages)
           /\ SubSeq(messages', 1, Len(messages)) = messages
           /\ (pc # "init" /\ messages' # messages) =>
                 /\ Len(messages') = Len(messages) + 2
                 /\ numStep' = numStep + 1
                 /\ messages'[Len(messages) + 1] = Msg("assistant", encodeStep(curStep'))]_vars

\* two different actions observed, in the order they were dispatched
C15_Witness ==
    /\ numStep = 3
    /\ Len(messages) = 6
    /\ messages[5] = Msg("assistant", encodeStep(curStep))
    /\ messages[3] # messages[5]
    /\ messages[6].Role = "user"

\* p is root or lies below it
Under(p, root) == p = root \/ HasPrefix(p, root \o <<SLASH>>)

\* C16: in the version with the cd action, after every sequence of cd and
\* file actions every file a file action has written lies under Config.WorkDir.
C16_WritesUnderConfigWorkDir ==
    \A f \in fsFiles \ InitFiles :
        f.path[Len(f.path)] # OutputLog[1] => Under(f.path, configWorkDir)

\* C17: every call of Shell.Stop returns without an error, the first as well
\* as a second one and one made after bash has exited by itself.
C17_StopIsIdempotent ==
    stopRet \in {"none", "nil"}

\* C18: while no shell command has run, the shell is in the directory given
\* with --workdir and a file action with a relative path has written its file
\* below that directory.
C18_WorkDirFlagIsStartDirectory ==
    LET input == Unmarshal(curStep.Input)
        target == Clean(configWorkDir \o <<SLASH>> \o input.Path)
    IN /\ (pc # "init" /\ shAlive /\ stdinWrites = 0) => shPWD = configWorkDir
       /\ (/\ stdinWrites = 0
           /\ curStep.Action = <<"file">>
           /\ input.ok /\ input.Path # <<>> /\ ~IsAbs(input.Path)
           /\ ret \notin {ErrMkdir, ErrWrite})
          => \E f \in fsFiles : f.path = target

\* the command's output ends in the middle of a line, so that the sentinel
\* comes after it on the same line
EndsMidLine(out) == out # <<>> /\ out[Len(out)] # NL

\* C19: a Shell.Run whose sentinel came after other text on the same line
\* returns that text as the last line of the command's stdout, and a Run whose
\* sentinel came at the start of its line returns the lines before it and
\* nothing more; both return the exit code and the directory written after
\* the token (the directory up to its first comma). The sentinel is the
\* trailer's: the Runs looked at are those before any command wrote the
\* token itself.
C19_TextBeforeSentinelIsOutput ==
    \A k \in 1..Len(runLog) :
        TokenFree(k) =>
        /\ k <= Len(shTruth)
        /\ EndsMidLine(shTruth[k].out) => runLog[k].stdout = shTruth[k].out
        /\ ~EndsMidLine(shTruth[k].out) =>
              runLog[k].stdout = Join(LinesOf(shTruth[k].out), NL)
        /\ runLog[k].rc = shTruth[k].rc
        /\ runLog[k].workDir = Split(shTruth[k].pwd, COMMA)[1]

\* printf foo run in /tmp: the sentinel line is fooGPTASK-COMMAND-END,0,/tmp
C19_Witness ==
    \E k \in 1..Len(runLog) :
        /\ k <= Len(shTruth)
        /\ shTruth[k].out = <<"foo">>
        /\ runLog[k] = [rc |-> 0, stdout |-> <<"foo">>, stderr |-> <<>>,
                        workDir |-> <<SLASH, "tmp">>]

\* C20: a Shell.Run that is waiting for its command returns, whatever lines
\* the command writes to stdout and stderr and in whatever order they are
\* read, unless the command has made bash itself exit or is a statement
\* that has not ended (bash waits for the rest of it).
C20_RunReturns ==
    (pc = "select") ~>
        (pc # "select" \/ ~shAlive \/ (shStdin # <<>> /\ StatementEnd(shStdin) = -1))

\* a Run has returned for the command that wrote three lines to stderr and
\* one to stdout, all of them delivered
C20_Witness ==
    \E k \in 1..Len(runLog) :
        /\ runLog[k].stdout = <<"o1">>
        /\ runLog[k].stderr = <<"e1", NL, "e2", NL, "e3">>

\* the lines of the shell action being dispatched, and how many of them have
\* been given to Shell.Run
ShellLines == Split(curStep.Input, NL)
LinesSent == Len(ShellLines) - Len(cmds)

\* the history entry an observation is recorded as
ObservationMsg(obs) == Msg("user", encodeStep(Step(<<>>, <<>>, <<>>, obs)))

\* what a shell action observes of a line that failed with status rc having
\* written err to standard error
FailureObservation(rc, err) ==
    IF LinesOf(err) = <<>> THEN FailedExitCode(rc) ELSE Join(LinesOf(err), NL)

\* C21: a shell action gives the lines of its input to the shell one by one
\* and in order, each only after every line before it has finished with
\* status 0; once a line has finished with a status other than 0 the action
\* ends without sending the rest, and its observation is what that line wrote
\* to standard error, or failed (exit code: N) when it wrote nothing there.
\* The observation is looked at while no command has written the token itself.
C21_StopsAtFirstFailure ==
    /\ [][stdinWrites' = stdinWrites + 1 =>
            LET lines == Split(curStep'.Input, NL)
                n == Len(lines) - Len(cmds')
            IN /\ n >= 1
               /\ shStdin' = shStdin \o lines[n] \o <<NL>> \o Trailer \o <<NL>>
               /\ cmds' = SubSeq(lines, n + 1, Len(lines))
               /\ n = IF pc = "loop" THEN 1 ELSE LinesSent + 1
               /\ pc = "select" => (curStep' = curStep /\ shTruth[Len(shTruth)].rc = 0)]_vars
    /\ []((/\ curStep.Action = <<"shell">>
           /\ pc \in {"loop", "returned"}
           /\ ret \notin {ErrPipe, "panic"}
           /\ TokenFree(Len(runLog))
           /\ Len(runLog) <= Len(shTruth)
           /\ shTruth[Len(runLog)].rc # 0)
          => messages[Len(messages)] =
                ObservationMsg(FailureObservation(shTruth[Len(runLog)].rc,
                                                  shTruth[Len(runLog)].err)))

\* C22: a shell action whose input holds a statement of several lines (a
\* here-document: cat <<EOF, x, EOF) and has been given to the shell engine
\* completes: the Shell.Run that is waiting returns.
C22_MultiLineStatementCompletes ==
    (pc = "select" /\ curStep.Input = HereDocInput) ~> (pc # "select")

\* the marker put before output that was cut
SnipMarker == <<"...(snip)...">>

\* the last n elements of a sequence
LastN(seq, n) == SubSeq(seq, Len(seq) - n + 1, Len(seq))

\* C23: a shell action that succeeded with output of more than five lines
\* has as its feedback the marker followed by the last five lines of the
\* output, and with output of one to five lines the output as it is (the
\* newline that ends the output left aside).
C23_LongOutputIsCutToLastFive ==
    (cdLast.action = <<"shell">> /\ cdLast.end = "ok" /\ cdLast.err = "nil"
       /\ cdLast.output # <<>>) =>
        LET lines == LinesOf(cdLast.output)
        IN TrimRight(cdLast.feedback, {NL}) =
              IF Len(lines) > 5
              THEN Join(<<SnipMarker>> \o LastN(lines, 5), NL)
              ELSE Join(lines, NL)

\* the least element of a set of numbers
Least(S) == CHOOSE k \in S : \A j \in S : k <= j

\* the lines strictly between the first fence line after the first input: line
\* and the next fence line (the end of the text when there is none), joined
FencedPayload(lines) ==
    LET n == Len(lines)
        inputs == {k \in 1..n : HasPrefix(lines[k], <<"input", ":">>)}
        opens == {j \in (Least(inputs) + 1)..n : HasPrefix(lines[j], <<FENCE>>)}
        closes == {j \in (Least(opens) + 1)..n : HasPrefix(lines[j], <<FENCE>>)}
    IN IF inputs = {} \/ opens = {} THEN <<>>
       ELSE Join(SubSeq(lines, Least(opens) + 1,
                        IF closes = {} THEN n ELSE Least(closes) - 1), NL)

\* C24: for every reply text that decodes to a Step, the Step's input is the
\* lines strictly between the first fence line after input: and the next fence
\* line, joined by newlines and otherwise as they are in the text; without a
\* closing fence line it is the lines up to the end of the text.
C24_InputIsFencedPayload ==
    (cpc = "decoded" /\ cOut.kind = "step") =>
        cOut.s.Input = FencedPayload(Split(cIn.text, NL))

\* the greatest element of a set of numbers
Greatest(S) == CHOOSE k \in S : \A j \in S : j <= k

\* the text between fence markers that follows thought and action lines
Wrapped(s, payload) ==
    <<"thought", ":", SP>> \o s.Thought \o <<NL>>
      \o <<"action", ":", SP>> \o s.Action \o <<NL>>
      \o <<"input", ":", NL, FENCE, NL>> \o payload \o <<NL, FENCE, NL>>

\* a payload without the newlines it begins and ends with
OuterStripped(p) ==
    LET keep == {k \in 1..Len(p) : p[k] # NL}
    IN IF keep = {} THEN <<>> ELSE SubSeq(p, Least(keep), Greatest(keep))

\* a payload without at most one newline at its beginning and at its end
OneStripped(p) ==
    LET a == IF Len(p) > 0 /\ p[1] = NL THEN 2 ELSE 1
        b == IF Len(p) >= a /\ p[Len(p)] = NL THEN Len(p) - 1 ELSE Len(p)
    IN SubSeq(p, a, b)

FenceLines(lines) == {j \in 1..Len(lines) : HasPrefix(lines[j], <<FENCE>>)}

\* the lines of the fenced payload: those strictly between the first fence
\* line after the first input: line and the next fence line
PayloadIndices(lines) ==
    LET n == Len(lines)
        inputs == {k \in 1..n : HasPrefix(lines[k], <<"input", ":">>)}
        opens == {j \in FenceLines(lines) : j > Least(inputs)}
        closes == {j \in FenceLines(lines) : j > Least(opens)}
    IN IF inputs = {} \/ opens = {} THEN {}
       ELSE (Least(opens) + 1)..(IF closes = {} THEN n ELSE Least(closes) - 1)

\* the lines the scan for markers looks at, from line k on: an input: line
\* hides the lines after it up to and with the fence line that ends its
\* block, which is the second fence line after it when no fence line was
\* met after an earlier input: line (open = FALSE), and the first otherwise
RECURSIVE MarkerLines(_, _, _)
MarkerLines(lines, k, open) ==
    IF k > Len(lines) THEN {}
    ELSE IF HasPrefix(lines[k], <<"input", ":">>)
    THEN LET after == {j \in FenceLines(lines) : j > k}
             first == IF open THEN k
                      ELSE IF after = {} THEN Len(lines) + 1 ELSE Least(after)
             ends == {j \in after : j > first}
             end == IF ends = {} THEN Len(lines) + 1 ELSE Least(ends)
         IN {k} \cup MarkerLines(lines, end + 1, open \/ after # {})
    ELSE {k} \cup MarkerLines(lines, k + 1, open)

\* the trimmed text after the colon of the last line among `among` that
\* starts with the marker, and the empty text when there is none
LastMarked(lines, among, marker) ==
    LET hits == {k \in among : HasPrefix(lines[k], <<marker, ":">>)}
    IN IF hits = {} THEN <<>>
       ELSE LET line == lines[Greatest(hits)]
            IN Trim(SubSeq(line, 3, Len(line)), {NL, SP})

\* C26 as stated: in every reply that decodes to a Step, thought and action
\* are the trimmed text after the colon of the last line outside the fenced
\* payload that starts with thought: and with action:.
C26_LastMarkerOutsidePayloadWins ==
    (cpc = "decoded" /\ cOut.kind = "step") =>
        LET lines == Split(cIn.text, NL)
            outside == (1..Len(lines)) \ PayloadIndices(lines)
        IN /\ cOut.s.Thought = LastMarked(lines, outside, "thought")
           /\ cOut.s.Action = LastMarked(lines, outside, "action")

\* C26 amended: in every reply that decodes to a Step, thought and action
\* are the trimmed text after the colon of the last line that starts with
\* thought: and with action:, spelled so, among the lines no input: line
\* hides; a hidden line changes neither.
C26_LastVisibleMarkerWins ==
    (cpc = "decoded" /\ cOut.kind = "step") =>
        LET lines == Split(cIn.text, NL)
            seen == MarkerLines(lines, 1, FALSE)
        IN /\ cOut.s.Thought = LastMarked(lines, seen, "thought")
           /\ cOut.s.Action = LastMarked(lines, seen, "action")

\* a reply was decoded that has a second thought: line after its closing
\* fence, a thought: line in its payload and an Action: line
C26_Witness ==
    /\ cpc = "decoded"
    /\ cOut.kind = "step"
    /\ LET lines == Split(cIn.text, NL)
           seen == MarkerLines(lines, 1, FALSE)
           thoughts == {k \in 1..Len(lines) : HasPrefix(lines[k], <<"thought", ":">>)}
       IN /\ Cardinality(thoughts \cap seen) >= 2
          /\ thoughts \cap PayloadIndices(lines) # {}
          /\ cOut.s.Thought = <<"u">>
          /\ \E k \in seen : HasPrefix(lines[k], <<"Action", ":">>)

\* what a cd step with directory d must leave as the tracked directory
CdTarget(d, tracked) ==
    Clean(IF IsAbs(d) THEN d ELSE tracked \o <<SLASH>> \o d)

\* a cd step sets the tracked directory to the clean absolute path of a
\* non-empty directory, resolved against the tracked directory when it is
\* relative, and leaves it alone with a diagnostic for an empty one
CdStepTracks ==
    (cdLast'.action = <<"cd">> /\ cdLast'.err = "nil") =>
        LET d == Unmarshal(cdLast'.input).Dir
        IN IF d # <<>>
           THEN /\ rWorkDir' = CdTarget(d, getWorkDir(rWorkDir, configWorkDir))
                /\ IsAbs(rWorkDir')
                /\ cdLast'.Feedback = FeedbackSuccess
           ELSE /\ rWorkDir' = rWorkDir
                /\ cdLast'.Feedback # <<>>
                /\ cdLast'.Feedback # FeedbackSuccess

\* a file step after a cd resolves its relative path against the tracked
\* directory
FileStepFollows ==
    (rWorkDir # <<>> /\ cdLast'.action = <<"file">> /\ cdLast'.Feedback = FeedbackSuccess) =>
        LET in == Unmarshal(cdLast'.input)
        IN ~IsAbs(in.Path) =>
             \E f \in fsFiles' : /\ f.path = Clean(rWorkDir \o <<SLASH>> \o in.Path)
                                  /\ f.content = in.Content

\* a python or shell step after a cd is started in the tracked directory
ProcessStepFollows ==
    (rWorkDir # <<>> /\ cdLast'.action \in {<<"python">>, <<"shell">>}) =>
        cdLast'.dir = rWorkDir

\* a python or shell step after a cd does run
ProcessStepRuns ==
    (rWorkDir # <<>> /\ cdLast'.action \in {<<"python">>, <<"shell">>}) =>
        cdLast'.err # ErrChdir

\* C27: a cd action with a non-empty directory sets the tracked directory to
\* the normalised absolute path, a relative directory being resolved against
\* the tracked directory, and the file, python and shell actions that follow
\* run against it; a cd action with an empty directory leaves the tracked
\* directory unchanged and yields a diagnostic.
C27_CdSetsDirectoryOfLaterActions ==
    [][CdStepTracks /\ FileStepFollows /\ ProcessStepFollows /\ ProcessStepRuns]_vars

\* the history begins with the system message
BeginsWithSystemMessage ==
    Len(messages) >= 1 /\ messages[1] = Msg("system", SystemPrompt)

\* a step that shortens the history (a Rewind: Send only appends) removes the
\* last user message and the assistant reply after it, and nothing else
RewindRemovesLastExchange ==
    Len(messages') < Len(messages) =>
        LET n == Len(messages)
        IN /\ n >= 3
           /\ messages[n - 1].Role = "user"
           /\ messages[n].Role = "assistant"
           /\ messages' = SubSeq(messages, 1, n - 2)

\* C28: after any sequence of Send calls, failed or not, and Rewind calls the
\* history begins with the system message, and each Rewind removes exactly
\* the last user message with its assistant reply.
C28_RewindKeepsSystemMessage ==
    /\ []BeginsWithSystemMessage
    /\ [][RewindRemovesLastExchange]_vars

\* C29: in any sequence of commands the k-th Shell.Run that returns has
\* consumed the sentinel of its own trailer: it returns the exit status and
\* the directory (up to its first comma) of the k-th command, whatever the
\* commands write to standard output.
C29_RunReturnsOwnSentinel ==
    \A k \in 1..Len(runLog) :
        /\ k <= Len(shTruth)
        /\ runLog[k].rc = shTruth[k].rc
        /\ runLog[k].workDir = Split(shTruth[k].pwd, COMMA)[1]

\* C30: Shell.Run never fails while it parses a sentinel, whatever the
\* commands write to standard output: no run ends with the index out of range
\* of a line that holds the token without both fields after it.
C30_SentinelAlwaysParses ==
    ~(pc = "returned" /\ ret = "panic")

\* the text an observation block begins and ends with
BlockHead == <<"observation", ":", NL, FENCE, NL>>
BlockTail == <<NL, FENCE, NL>>

\* a non-empty observation block
IsObservationBlock(text) ==
    /\ Len(text) >= Len(BlockHead) + Len(BlockTail)
    /\ HasPrefix(text, BlockHead)
    /\ SubSeq(text, Len(text) - Len(BlockTail) + 1, Len(text)) = BlockTail

\* C31: every user message appended to the history after a dispatch (every
\* user message after the task) is a non-empty observation block, for every
\* action and every result the action can produce, empty output included.
C31_ObservationIsNeverEmpty ==
    \A k \in (Len(TaskHistory) + 1)..Len(messages) :
        messages[k].Role = "user" => IsObservationBlock(messages[k].Content)

\* what Shell.Run returns as stdout for a command that wrote out
StdoutText(out) == IF EndsMidLine(out) THEN out ELSE Join(LinesOf(out), NL)

\* the shell action dispatched last has sent its last line, that line has
\* finished with status 0, and nothing has ended the run from inside it
ShellActionSucceeded ==
    /\ curStep.Action = <<"shell">>
    /\ pc \in {"loop", "returned"}
    /\ ret \notin {ErrPipe, ErrStart, "panic"}
    /\ cmds = <<>>
    /\ Len(runLog) >= 1
    /\ TokenFree(Len(runLog))
    /\ Len(runLog) <= Len(shTruth)
    /\ shTruth[Len(runLog)].rc = 0

\* C32: when every line of a shell action has succeeded, the observation is
\* the stdout of the last line alone, or the success-with-no-output text when
\* the last line wrote nothing to stdout; what earlier lines wrote to stdout
\* is not part of it. The commands looked at do not write the token.
C32_LastLineStdoutIsObserved ==
    ShellActionSucceeded =>
        LET out == StdoutText(shTruth[Len(runLog)].out)
        IN messages[Len(messages)] =
              ObservationMsg(IF out = <<>> THEN ObservationSuccessWithNoOutput ELSE out)

\* a two-line shell action whose first line wrote the directory to stdout
\* and whose last line wrote nothing there has been observed
C32_Witness ==
    /\ ShellActionSucceeded
    /\ Len(ShellLines) = 2
    /\ Len(runLog) >= 2
    /\ runLog[Len(runLog) - 1].stdout = ProcCwd
    /\ shTruth[Len(runLog)].out = <<>>
    /\ messages[Len(messages)] = ObservationMsg(ObservationSuccessWithNoOutput)

====
